---------------------------- MODULE Spec2Model ----------------------------
(***************************************************************************)
(* Model of the RP2040 PWM driver (chips/rp2040/src/pwm.rs).               *)
(*                                                                         *)
(* The state is the register bank of the eight PWM channels, the interrupt *)
(* registers, the optional clock dependency and interrupt handler, the     *)
(* position of the foreground call in flight and the position of the       *)
(* interrupt handler.  A call to start is modelled register write by       *)
(* register write, so the order of the writes and the intermediate         *)
(* contents are observable; handle_interrupt is modelled step by step.     *)
(*                                                                         *)
(* Specifications:                                                         *)
(*   Spec         the driver used through init, set_clocks, start and      *)
(*                stop, with arguments drawn from small sets;              *)
(*   SpecPlanner  one start call on an initialised peripheral, with        *)
(*                frequency and duty cycle drawn from large sets, used for *)
(*                the arithmetic of the frequency / duty planner;          *)
(*   SpecPins     one start call through each GPIO pin, then stops through *)
(*                the pins that select the same output;                    *)
(*   SpecConfig   configure_channel and the divider setters, on channels   *)
(*                and on a configuration value, together with start/stop;  *)
(*   SpecIrq      the interrupt registers, the hardware latching wrap      *)
(*                interrupts, and handle_interrupt preempting the          *)
(*                foreground;                                              *)
(*   SpecOps      every public operation applied to one channel, with two  *)
(*                handlers, in the foreground and in the interrupt;        *)
(*   SpecPhase    advance_count and retard_count polling their             *)
(*                self-clearing bits, with the hardware that clears them   *)
(*                and weak fairness of the hardware and of the loops;      *)
(*   SpecMask     the interrupt enable mask written bit by bit and as a    *)
(*                whole, with handle_interrupt;                            *)
(*   SpecSetters  the setters of the control and compare registers of a    *)
(*                channel.                                                 *)
(***************************************************************************)
EXTENDS Integers, Sequences, FiniteSets, TLC

VARIABLES
    ch,      \* registers.ch: channel number -> channel registers
    clocks,  \* Pwm.clocks: <<>> when empty, else <<system clock frequency in Hz>>
    pc,      \* position of the foreground context
    call,    \* arguments and locals of the call in flight (kept after return)
    ret,     \* result of the last call
    pre,     \* history: ch as it was when the last call was entered
    wlog,    \* history: register writes issued by the last call, in order
    intr,    \* registers.intr: channels whose raw interrupt is latched
    inte,    \* registers.inte: channels whose interrupt is enabled
    intf,    \* registers.intf: channels whose interrupt is forced
    interrupt_handler,  \* Pwm.interrupt_handler: <<>> or <<handler>>
    isr,     \* position of handle_interrupt: [pc, channel_number]
    ilog,    \* history: what the last handle_interrupt did, in order
    ints_entry,  \* history: registers.ints when the last handle_interrupt was entered
    disturbed,   \* history: the hardware latched an interrupt during that call
    config   \* a PwmChannelConfiguration value held by the caller

\* The channel registers and the foreground call
pwm_vars == <<ch, clocks, pc, call, ret, pre, wlog>>

\* The interrupt registers and the interrupt context
irq_vars == <<intr, inte, intf, interrupt_handler, isr, ilog, ints_entry, disturbed>>

vars == <<pwm_vars, irq_vars, config>>

---------------------------------------------------------------------------
(* Program constants *)

NUMBER_CHANNELS == 8

U16_MAX == 65535

\* hil::pwm::Pwm::get_maximum_duty_cycle: u16::MAX as usize + 1
get_maximum_duty_cycle == U16_MAX + 1

\* OptionalCell::empty()
None == <<>>

ChannelNumbers == 0 .. (NUMBER_CHANNELS - 1)

\* enum DivMode, in declaration order
DivModes == {"FreeRunning", "High", "Rising", "Falling"}

---------------------------------------------------------------------------
(* Bounds and input sets *)

\* SpecPlanner tries every frequency 1 .. MaxLowFreq
MaxLowFreq == 2000

\* SpecPlanner tries the frequencies clock div k, k in 1 .. MaxDivisor
MaxDivisor == 12

\* SpecPlanner tries the frequencies threshold + k, k in 1 .. MaxAbove
MaxAbove == 3

\* SpecPlanner tries the duty cycles k * (65536 div DutySteps), k in 0 .. DutySteps
DutySteps == 8

\* System clock frequencies the clock tree may report (Hz).  33554432 = 2^25
\* makes threshold_freq_hz an exact multiple of 256.
ClockChoices == {33554432, 125000000}

\* System clock frequency reported in Spec (Hz)
ModelClocks == {125000000}

\* GPIO pins used by Spec: 0 -> 0A, 1 -> 0B, 18 -> 1A (second time around)
ModelPins == {0, 1, 18}

\* GPIO pins Spec stops: the pins it starts, and 17 -> 0B (second time around)
StopPins == ModelPins \cup {17}

\* Duty cycles used by Spec: 0%, 75%, 100%
ModelDuties == {0, (get_maximum_duty_cycle \div 4) * 3, get_maximum_duty_cycle}

\* Frequencies used by Spec: too low, the threshold, a quarter of the clock
ModelFreqs(clock) == {1, clock \div get_maximum_duty_cycle, clock \div 4}

---------------------------------------------------------------------------
(* Pin identity mapping *)

\* enum RPGpio: GPIO0 .. GPIO29
GpioPins == 0 .. 29

\* Mutant of ChannelNumber_from: the shift is missing
ChannelNumber_from_no_shift(gpio) == gpio % 8

\* impl From<RPGpio> for ChannelNumber: gpio as u8 >> 1 & 7
ChannelNumber_from(gpio) == (gpio \div 2) % 8

\* impl From<RPGpio> for ChannelPin: gpio as u8 & 1
ChannelPin_from(gpio) == IF gpio % 2 = 0 THEN "A" ELSE "B"

---------------------------------------------------------------------------
(* Channel configuration *)

\* PwmChannelConfiguration::default_config: the configuration fields
default_config ==
    [en |-> FALSE, ph_correct |-> FALSE, a_inv |-> FALSE, b_inv |-> FALSE,
     divmode |-> "FreeRunning", int |-> 1, frac |-> 0,
     cc_a |-> 0, cc_b |-> 0, top |-> U16_MAX]

\* Register contents left by an earlier run of the unit test test_channel
\* (the values it programs last), as found at a warm restart.
stale_registers ==
    [en |-> FALSE, ph_correct |-> FALSE, a_inv |-> FALSE, b_inv |-> FALSE,
     divmode |-> "FreeRunning", int |-> 123, frac |-> 4,
     cc_a |-> 2023, cc_b |-> 1, top |-> 12345, ctr |-> 12346,
     ph_ret |-> FALSE, ph_adv |-> FALSE]

\* Registers of a channel after init: default_config applied, counter 0
reset_registers ==
    [en |-> default_config.en, ph_correct |-> default_config.ph_correct,
     a_inv |-> default_config.a_inv, b_inv |-> default_config.b_inv,
     divmode |-> default_config.divmode,
     int |-> default_config.int, frac |-> default_config.frac,
     cc_a |-> default_config.cc_a, cc_b |-> default_config.cc_b,
     top |-> default_config.top, ctr |-> 0,
     ph_ret |-> FALSE, ph_adv |-> FALSE]

---------------------------------------------------------------------------
(* Register setters: functions from a register bank to a register bank *)

\* Pwm::set_enabled: csr.modify(EN)
set_enabled(bank, channel_number, enable) ==
    [bank EXCEPT ![channel_number].en = enable]

\* Mutant of set_mask_enabled: the mask is written as it is
set_mask_enabled_overwrite(bank, mask) ==
    [c \in DOMAIN bank |-> [bank[c] EXCEPT !.en = (c \in mask)]]

\* Pwm::set_mask_enabled: val = en.read(CH), en.modify(CH.val(val | mask));
\* the en register aliases the CSR_EN bits of all channels
set_mask_enabled(bank, mask) ==
    LET val == {c \in DOMAIN bank : bank[c].en}
    IN  [c \in DOMAIN bank |-> [bank[c] EXCEPT !.en = (c \in val \cup mask)]]

\* Pwm::set_top: top.modify(TOP.val(top as u32))
set_top(bank, channel_number, top) ==
    [bank EXCEPT ![channel_number].top = top]

\* Pwm::set_compare_value_a: cc.modify(CC::A.val(..))
set_compare_value_a(bank, channel_number, cc_a) ==
    [bank EXCEPT ![channel_number].cc_a = cc_a]

\* Pwm::set_compare_value_b: cc.modify(CC::B.val(..))
set_compare_value_b(bank, channel_number, cc_b) ==
    [bank EXCEPT ![channel_number].cc_b = cc_b]

\* Mutant of divider_rejected: only the fractional part is validated
divider_rejected_frac_only(int, frac) == frac > 15

\* Pwm::set_divider_int_frac: the guard "if int == 0 || frac > 15 { return; }"
divider_rejected(int, frac) == int = 0 \/ frac > 15

\* Pwm::set_divider_int_frac: div.modify(DIV::INT.val(int as u32))
\* (an 8-bit field)
write_div_int(bank, channel_number, int) ==
    [bank EXCEPT ![channel_number].int = int % 256]

\* Pwm::set_divider_int_frac: div.modify(DIV::FRAC.val(frac as u32))
\* (a 4-bit field)
write_div_frac(bank, channel_number, frac) ==
    [bank EXCEPT ![channel_number].frac = frac % 16]

\* Pwm::set_ph_correct: csr.modify(PH_CORRECT)
set_ph_correct(bank, channel_number, ph_correct) ==
    [bank EXCEPT ![channel_number].ph_correct = ph_correct]

\* Mutant of set_invert_polarity: the second write goes to A_INV again
set_invert_polarity_a_twice(bank, channel_number, a_inv, b_inv) ==
    [bank EXCEPT ![channel_number].a_inv = b_inv]

\* Pwm::set_invert_polarity: csr.modify(A_INV), then csr.modify(B_INV)
set_invert_polarity(bank, channel_number, a_inv, b_inv) ==
    [bank EXCEPT ![channel_number].a_inv = a_inv,
                 ![channel_number].b_inv = b_inv]

\* Pwm::set_div_mode: csr.modify(DIVMOD)
set_div_mode(bank, channel_number, divmode) ==
    [bank EXCEPT ![channel_number].divmode = divmode]

\* Pwm::set_divider_int_frac: nothing if the guard rejects, else the INT
\* write followed by the FRAC write
set_divider_int_frac(bank, channel_number, int, frac) ==
    IF divider_rejected(int, frac)
    THEN bank
    ELSE write_div_frac(write_div_int(bank, channel_number, int),
                        channel_number, frac)

\* Mutant of configure_channel: compare value A is written to both pins
configure_channel_cc_a_twice(bank, channel_number, cfg) ==
    set_enabled(
     set_top(
      set_compare_value_b(
       set_compare_value_a(
        set_divider_int_frac(
         set_div_mode(
          set_invert_polarity(
           set_ph_correct(bank, channel_number, cfg.ph_correct),
           channel_number, cfg.a_inv, cfg.b_inv),
          channel_number, cfg.divmode),
         channel_number, cfg.int, cfg.frac),
        channel_number, cfg.cc_a),
       channel_number, cfg.cc_a),
      channel_number, cfg.top),
     channel_number, cfg.en)

\* Pwm::configure_channel: set_ph_correct, set_invert_polarity, set_div_mode,
\* set_divider_int_frac, set_compare_value_a, set_compare_value_b, set_top,
\* set_enabled, in this order (innermost first)
configure_channel(bank, channel_number, cfg) ==
    set_enabled(
     set_top(
      set_compare_value_b(
       set_compare_value_a(
        set_divider_int_frac(
         set_div_mode(
          set_invert_polarity(
           set_ph_correct(bank, channel_number, cfg.ph_correct),
           channel_number, cfg.a_inv, cfg.b_inv),
          channel_number, cfg.divmode),
         channel_number, cfg.int, cfg.frac),
        channel_number, cfg.cc_a),
       channel_number, cfg.cc_b),
      channel_number, cfg.top),
     channel_number, cfg.en)

\* Mutant of configure_channel_writes: top is written first, as in start
configure_channel_writes_top_first ==
    <<"top", "ph_correct", "a_inv", "b_inv", "divmode", "div_int", "div_frac",
      "cc_a", "cc_b", "en">>

\* The register writes of configure_channel, in program order
configure_channel_writes ==
    <<"ph_correct", "a_inv", "b_inv", "divmode", "div_int", "div_frac",
      "cc_a", "cc_b", "top", "en">>

---------------------------------------------------------------------------
(* PwmChannelConfiguration: setters of a configuration value *)

\* PwmChannelConfiguration::set_enabled
cfg_set_enabled(cfg, enable) == [cfg EXCEPT !.en = enable]

\* PwmChannelConfiguration::set_ph_correct
cfg_set_ph_correct(cfg, ph_correct) == [cfg EXCEPT !.ph_correct = ph_correct]

\* PwmChannelConfiguration::set_invert_polarity
cfg_set_invert_polarity(cfg, a_inv, b_inv) ==
    [cfg EXCEPT !.a_inv = a_inv, !.b_inv = b_inv]

\* PwmChannelConfiguration::set_div_mode
cfg_set_div_mode(cfg, divmode) == [cfg EXCEPT !.divmode = divmode]

\* Mutant of cfg_set_divider_int_frac: each part is validated on its own
cfg_set_divider_int_frac_separately(cfg, int, frac) ==
    [cfg EXCEPT !.int = IF int = 0 THEN cfg.int ELSE int,
                !.frac = IF frac > 15 THEN cfg.frac ELSE frac]

\* Mutant of cfg_set_divider_int_frac: the pair is stored without the guard
cfg_set_divider_int_frac_unchecked(cfg, int, frac) ==
    [cfg EXCEPT !.int = int, !.frac = frac]

\* PwmChannelConfiguration::set_divider_int_frac
cfg_set_divider_int_frac(cfg, int, frac) ==
    IF int = 0 \/ frac > 15
    THEN cfg
    ELSE [cfg EXCEPT !.int = int, !.frac = frac]

\* PwmChannelConfiguration::set_compare_value_a
cfg_set_compare_value_a(cfg, cc_a) == [cfg EXCEPT !.cc_a = cc_a]

\* PwmChannelConfiguration::set_compare_value_b
cfg_set_compare_value_b(cfg, cc_b) == [cfg EXCEPT !.cc_b = cc_b]

\* PwmChannelConfiguration::set_compare_values_a_and_b
cfg_set_compare_values_a_and_b(cfg, cc_a, cc_b) ==
    cfg_set_compare_value_b(cfg_set_compare_value_a(cfg, cc_a), cc_b)

\* PwmChannelConfiguration::set_top
cfg_set_top(cfg, top) == [cfg EXCEPT !.top = top]

\* A configuration built from default_config with every setter, with the
\* values the unit test test_channel programs
test_config ==
    cfg_set_top(
     cfg_set_compare_values_a_and_b(
      cfg_set_divider_int_frac(
       cfg_set_div_mode(
        cfg_set_invert_polarity(
         cfg_set_ph_correct(
          cfg_set_enabled(default_config, TRUE),
          TRUE),
         TRUE, FALSE),
        "Rising"),
       123, 4),
      2023, 1),
     12345)

---------------------------------------------------------------------------
(* f32 arithmetic used by compute_top_int_frac.                            *)
(* A finite positive f32 is represented as [m, s], standing for m / 2^s    *)
(* with m a 24-bit significand.                                            *)

Pow2(n) == 2 ^ n

\* floor(log2(n)) for n >= 1
RECURSIVE Log2Floor(_)
Log2Floor(n) == IF n < 2 THEN 0 ELSE 1 + Log2Floor(n \div 2)

\* "x as f32" for a usize x: exact below 2^24, otherwise rounded to 24
\* significant bits, ties to even.  Returns the integer value of the f32.
UsizeAsF32(x) ==
    IF x < Pow2(24) THEN x
    ELSE LET k    == Log2Floor(x) - 23
             q    == x \div Pow2(k)
             r    == x % Pow2(k)
             half == Pow2(k - 1)
             up   == r > half \/ (r = half /\ q % 2 = 1)
         IN  (IF up THEN q + 1 ELSE q) * Pow2(k)

\* Binary long division: the pair <<quotient, remainder>> of (a * 2^s) by b,
\* from <<q, r>> the quotient and remainder of a by b.
RECURSIVE ShiftDivide(_, _, _, _)
ShiftDivide(q, r, b, s) ==
    IF s = 0 THEN <<q, r>>
    ELSE ShiftDivide(2 * q + ((2 * r) \div b), (2 * r) % b, b, s - 1)

\* IEEE-754 single precision a / b, round to nearest, ties to even, for
\* integers a >= b >= 1 (both exactly representable).
F32Div(a, b) ==
    LET e  == Log2Floor(a \div b)
        s  == 23 - e
        qr == ShiftDivide(a \div b, a % b, b, s)
        q  == qr[1]
        r  == qr[2]
        up == 2 * r > b \/ (2 * r = b /\ q % 2 = 1)
    IN  [m |-> IF up THEN q + 1 ELSE q, s |-> s]

\* floor of an f32 value ("as u8" on a value below 256)
F32Floor(x) == x.m \div Pow2(x.s)

\* Mutant of F32FracTimes16: the fraction is rounded to the nearest sixteenth
F32FracTimes16_round(x, n) ==
    ((x.m - n * Pow2(x.s)) * 16 + Pow2(x.s - 1)) \div Pow2(x.s)

\* Mutant of F32FracTimes16: the fraction is lost (an integer division)
F32FracTimes16_zero(x, n) == 0

\* floor((x - n) * 16.0) for an integer n <= x < n + 1; the subtraction and
\* the multiplication by a power of two are exact in f32
F32FracTimes16(x, n) == ((x.m - n * Pow2(x.s)) * 16) \div Pow2(x.s)

---------------------------------------------------------------------------
(* Frequency / duty planner *)

\* Mutant of compute_top_int_frac: top is the period, not the period minus one
compute_top_int_frac_no_minus_one(max_freq_hz, selected_freq_hz) ==
    LET threshold_freq_hz == max_freq_hz \div get_maximum_duty_cycle
        Err == [ok |-> FALSE, top |-> 0, int |-> 0, frac |-> 0]
    IN  IF selected_freq_hz > threshold_freq_hz
        THEN [ok |-> TRUE,
              top |-> (max_freq_hz \div selected_freq_hz) % (U16_MAX + 1),
              int |-> 1, frac |-> 0]
        ELSE LET divider == F32Div(threshold_freq_hz, selected_freq_hz)
                 int     == F32Floor(divider)
             IN  IF int >= 256 THEN Err
                 ELSE [ok |-> TRUE, top |-> U16_MAX, int |-> int,
                       frac |-> F32FracTimes16(divider, int)]

\* Mutant of compute_top_int_frac: a divider of exactly 256 is accepted and
\* truncated by the cast to u8
compute_top_int_frac_accepts_256(max_freq_hz, selected_freq_hz) ==
    LET threshold_freq_hz == max_freq_hz \div get_maximum_duty_cycle
        Err == [ok |-> FALSE, top |-> 0, int |-> 0, frac |-> 0]
    IN  IF selected_freq_hz > threshold_freq_hz
        THEN [ok |-> TRUE,
              top |-> ((max_freq_hz \div selected_freq_hz) - 1) % (U16_MAX + 1),
              int |-> 1, frac |-> 0]
        ELSE LET divider == F32Div(threshold_freq_hz, selected_freq_hz)
                 int     == F32Floor(divider)
             IN  IF int > 256 \/ (int = 256 /\ divider.m > 256 * Pow2(divider.s))
                 THEN Err
                 ELSE [ok |-> TRUE, top |-> U16_MAX, int |-> int % 256,
                       frac |-> F32FracTimes16(divider, int)]

\* Mutant of compute_top_int_frac: the threshold frequency itself takes the
\* branch without divider
compute_top_int_frac_at_threshold(max_freq_hz, selected_freq_hz) ==
    LET threshold_freq_hz == max_freq_hz \div get_maximum_duty_cycle
        Err == [ok |-> FALSE, top |-> 0, int |-> 0, frac |-> 0]
    IN  IF selected_freq_hz >= threshold_freq_hz /\ selected_freq_hz > 0
        THEN [ok |-> TRUE,
              top |-> ((max_freq_hz \div selected_freq_hz) - 1) % (U16_MAX + 1),
              int |-> 1, frac |-> 0]
        ELSE IF selected_freq_hz = 0
        THEN IF threshold_freq_hz > 0 THEN Err
             ELSE [ok |-> TRUE, top |-> U16_MAX, int |-> 0, frac |-> 0]
        ELSE LET divider == F32Div(UsizeAsF32(threshold_freq_hz),
                                   UsizeAsF32(selected_freq_hz))
                 int     == F32Floor(divider)
             IN  IF int >= 256 THEN Err
                 ELSE [ok |-> TRUE, top |-> U16_MAX, int |-> int,
                       frac |-> F32FracTimes16(divider, int)]

\* Pwm::compute_top_int_frac, with max_freq_hz the system clock frequency.
\* Result: [ok, top, int, frac]; ok = FALSE stands for Err(()).
\* Callers keep selected_freq_hz at or below max_freq_hz ("it is in the
\* caller's responsability", start's documentation); both specifications
\* draw frequencies from 1 .. max_freq_hz only.  In the divider branch both
\* operands of the f32 division are below 2^24, since threshold_freq_hz is a
\* 32-bit clock divided by 65536.
compute_top_int_frac(max_freq_hz, selected_freq_hz) ==
    LET threshold_freq_hz == max_freq_hz \div get_maximum_duty_cycle
        Err == [ok |-> FALSE, top |-> 0, int |-> 0, frac |-> 0]
    IN  IF selected_freq_hz > threshold_freq_hz
        THEN [ok |-> TRUE,
              top |-> ((max_freq_hz \div selected_freq_hz) - 1) % (U16_MAX + 1),
              int |-> 1, frac |-> 0]
        ELSE IF selected_freq_hz = 0
        THEN \* x / 0.0 is +inf (>= 256.0) for x > 0 and NaN for x = 0;
             \* NaN >= 256.0 is false and NaN as u8 is 0
             IF threshold_freq_hz > 0 THEN Err
             ELSE [ok |-> TRUE, top |-> U16_MAX, int |-> 0, frac |-> 0]
        ELSE LET divider == F32Div(UsizeAsF32(threshold_freq_hz),
                                   UsizeAsF32(selected_freq_hz))
                 int     == F32Floor(divider)
             IN  IF int >= 256 THEN Err
                 ELSE [ok |-> TRUE, top |-> U16_MAX, int |-> int,
                       frac |-> F32FracTimes16(divider, int)]

\* Mutant of MulShift16: the quotient is rounded up
MulShift16_ceil(a, b) ==
    (a * (b \div 256) + (a * (b % 256) + 255) \div 256 + 255) \div 256

\* floor(a * b / 65536) for 0 <= a <= 65536, 0 <= b <= 65536, computed on
\* the high and low byte of b so that no product exceeds 2^25
MulShift16(a, b) == (a * (b \div 256) + (a * (b % 256)) \div 256) \div 256

\* Mutant of compare_value: 100% duty at top = 65535 is not rejected and the
\* compare value wraps around in 16 bits
compare_value_wrapping(top, duty_cycle) ==
    IF duty_cycle = get_maximum_duty_cycle
    THEN [ok |-> TRUE, value |-> (top + 1) % (U16_MAX + 1)]
    ELSE [ok |-> TRUE, value |-> MulShift16(top + 1, duty_cycle) % (U16_MAX + 1)]

\* Mutant of compare_value: 100% duty is not rejected at top = 65535
compare_value_no_max_check(top, duty_cycle) ==
    IF duty_cycle = get_maximum_duty_cycle
    THEN [ok |-> TRUE, value |-> top + 1]
    ELSE [ok |-> TRUE, value |-> MulShift16(top + 1, duty_cycle) % (U16_MAX + 1)]

\* Pwm::start_pwm_pin, the computation of compare_value.
\* Result: [ok, value]; ok = FALSE stands for the early return of INVAL.
compare_value(top, duty_cycle) ==
    LET max_duty_cycle == get_maximum_duty_cycle
    IN  IF duty_cycle = max_duty_cycle
        THEN IF top = U16_MAX
             THEN [ok |-> FALSE, value |-> 0]
             ELSE [ok |-> TRUE, value |-> top + 1]
        ELSE [ok |-> TRUE, value |-> MulShift16(top + 1, duty_cycle) % (U16_MAX + 1)]

---------------------------------------------------------------------------
(* Calls *)

\* hil::pwm::Pwm::get_maximum_frequency_hz, when a clock is set
get_maximum_frequency_hz == clocks[1]

NoCall ==
    [op |-> "none", pin |-> 0, channel_number |-> 0, channel_pin |-> "A",
     frequency_hz |-> 0, duty_cycle |-> 0,
     solved |-> FALSE, top |-> 0, int |-> 0, frac |-> 0, compare_value |-> 0,
     mask |-> {}]

\* hil::pwm::Pwm::start: map the pin, enter start_pwm_pin
start(pin, frequency_hz, duty_cycle) ==
    /\ pc = "idle"
    /\ call' = [NoCall EXCEPT !.op = "start",
                              !.pin = pin,
                              !.channel_number = ChannelNumber_from(pin),
                              !.channel_pin = ChannelPin_from(pin),
                              !.frequency_hz = frequency_hz,
                              !.duty_cycle = duty_cycle]
    /\ pc' = "start_pwm_pin"
    /\ ret' = "pending"
    /\ pre' = ch
    /\ wlog' = <<>>
    /\ UNCHANGED <<ch, clocks>>
    /\ UNCHANGED <<irq_vars, config>>

\* Mutant of start_pwm_pin: a failed start also disables the channel
start_pwm_pin_disable_on_error ==
    /\ pc = "start_pwm_pin"
    /\ IF clocks = None
       THEN /\ pc' = "panic"
            /\ UNCHANGED <<call, ret, ch>>
       ELSE LET r == compute_top_int_frac(get_maximum_frequency_hz, call.frequency_hz)
                c == compare_value(r.top, call.duty_cycle)
            IN  IF ~r.ok \/ ~c.ok
                THEN /\ pc' = "idle"
                     /\ ret' = "INVAL"
                     /\ ch' = set_enabled(ch, call.channel_number, FALSE)
                     /\ call' = [call EXCEPT !.solved = r.ok, !.top = r.top,
                                             !.int = r.int, !.frac = r.frac]
                ELSE /\ pc' = "set_top"
                     /\ call' = [call EXCEPT !.solved = TRUE, !.top = r.top,
                                             !.int = r.int, !.frac = r.frac,
                                             !.compare_value = c.value]
                     /\ UNCHANGED <<ret, ch>>
    /\ UNCHANGED <<clocks, pre, wlog>>
    /\ UNCHANGED <<irq_vars, config>>

\* Mutant of start_pwm_pin: top and divider are written before the compare
\* value is solved, so a failure of the compare solve leaves them written
start_pwm_pin_write_before_check ==
    /\ pc = "start_pwm_pin"
    /\ IF clocks = None
       THEN /\ pc' = "panic"
            /\ UNCHANGED <<call, ret, ch, wlog>>
       ELSE LET r == compute_top_int_frac(get_maximum_frequency_hz, call.frequency_hz)
                c == compare_value(r.top, call.duty_cycle)
            IN  IF ~r.ok
                THEN /\ pc' = "idle"
                     /\ ret' = "INVAL"
                     /\ UNCHANGED <<call, ch, wlog>>
                ELSE IF ~c.ok
                THEN /\ pc' = "idle"
                     /\ ret' = "INVAL"
                     /\ ch' = write_div_frac(
                                  write_div_int(
                                      set_top(ch, call.channel_number, r.top),
                                      call.channel_number, r.int),
                                  call.channel_number, r.frac)
                     /\ wlog' = <<"top", "div_int", "div_frac">>
                     /\ call' = [call EXCEPT !.solved = TRUE, !.top = r.top,
                                             !.int = r.int, !.frac = r.frac]
                ELSE /\ pc' = "set_top"
                     /\ call' = [call EXCEPT !.solved = TRUE, !.top = r.top,
                                             !.int = r.int, !.frac = r.frac,
                                             !.compare_value = c.value]
                     /\ UNCHANGED <<ret, ch, wlog>>
    /\ UNCHANGED <<clocks, pre>>
    /\ UNCHANGED <<irq_vars, config>>

\* Mutant of start_pwm_pin: without a clock the call returns INVAL
start_pwm_pin_inval_without_clock ==
    /\ pc = "start_pwm_pin"
    /\ IF clocks = None
       THEN /\ pc' = "idle"
            /\ ret' = "INVAL"
            /\ UNCHANGED call
       ELSE LET r == compute_top_int_frac(get_maximum_frequency_hz, call.frequency_hz)
                c == compare_value(r.top, call.duty_cycle)
            IN  IF ~r.ok
                THEN /\ pc' = "idle"
                     /\ ret' = "INVAL"
                     /\ UNCHANGED call
                ELSE IF ~c.ok
                THEN /\ pc' = "idle"
                     /\ ret' = "INVAL"
                     /\ call' = [call EXCEPT !.solved = TRUE, !.top = r.top,
                                             !.int = r.int, !.frac = r.frac]
                ELSE /\ pc' = "set_top"
                     /\ call' = [call EXCEPT !.solved = TRUE, !.top = r.top,
                                             !.int = r.int, !.frac = r.frac,
                                             !.compare_value = c.value]
                     /\ UNCHANGED ret
    /\ UNCHANGED <<ch, clocks, pre, wlog>>
    /\ UNCHANGED <<irq_vars, config>>

\* Pwm::start_pwm_pin up to the first register write: solve top and divider,
\* solve the compare value, return INVAL if either fails.
\* get_maximum_frequency_hz panics when no clock was set.
start_pwm_pin ==
    /\ pc = "start_pwm_pin"
    /\ IF clocks = None
       THEN /\ pc' = "panic"
            /\ UNCHANGED <<call, ret>>
       ELSE LET r == compute_top_int_frac(get_maximum_frequency_hz, call.frequency_hz)
                c == compare_value(r.top, call.duty_cycle)
            IN  IF ~r.ok
                THEN /\ pc' = "idle"
                     /\ ret' = "INVAL"
                     /\ UNCHANGED call
                ELSE IF ~c.ok
                THEN /\ pc' = "idle"
                     /\ ret' = "INVAL"
                     /\ call' = [call EXCEPT !.solved = TRUE, !.top = r.top,
                                             !.int = r.int, !.frac = r.frac]
                ELSE /\ pc' = "set_top"
                     /\ call' = [call EXCEPT !.solved = TRUE, !.top = r.top,
                                             !.int = r.int, !.frac = r.frac,
                                             !.compare_value = c.value]
                     /\ UNCHANGED ret
    /\ UNCHANGED <<ch, clocks, pre, wlog>>
    /\ UNCHANGED <<irq_vars, config>>

\* Mutant of start_set_top: the channel is enabled together with the top write
start_set_top_and_enable ==
    /\ pc = "set_top"
    /\ ch' = set_enabled(set_top(ch, call.channel_number, call.top),
                         call.channel_number, TRUE)
    /\ wlog' = wlog \o <<"top", "en">>
    /\ pc' = "set_divider_int"
    /\ UNCHANGED <<clocks, call, ret, pre>>
    /\ UNCHANGED <<irq_vars, config>>

\* start_pwm_pin: self.set_top(channel_number, top)
start_set_top ==
    /\ pc = "set_top"
    /\ ch' = set_top(ch, call.channel_number, call.top)
    /\ wlog' = Append(wlog, "top")
    /\ pc' = "set_divider_int"
    /\ UNCHANGED <<clocks, call, ret, pre>>
    /\ UNCHANGED <<irq_vars, config>>

\* start_pwm_pin: self.set_divider_int_frac(..): the guard and the INT write
start_set_divider_int ==
    /\ pc = "set_divider_int"
    /\ IF divider_rejected(call.int, call.frac)
       THEN /\ pc' = "set_compare_value"
            /\ UNCHANGED <<ch, wlog>>
       ELSE /\ ch' = write_div_int(ch, call.channel_number, call.int)
            /\ wlog' = Append(wlog, "div_int")
            /\ pc' = "set_divider_frac"
    /\ UNCHANGED <<clocks, call, ret, pre>>
    /\ UNCHANGED <<irq_vars, config>>

\* start_pwm_pin: self.set_divider_int_frac(..): the FRAC write
start_set_divider_frac ==
    /\ pc = "set_divider_frac"
    /\ ch' = write_div_frac(ch, call.channel_number, call.frac)
    /\ wlog' = Append(wlog, "div_frac")
    /\ pc' = "set_compare_value"
    /\ UNCHANGED <<clocks, call, ret, pre>>
    /\ UNCHANGED <<irq_vars, config>>

\* Mutant of start_set_compare_value: the compare value goes to both sub-pins
start_set_compare_value_both ==
    /\ pc = "set_compare_value"
    /\ ch' = set_compare_value_b(
                 set_compare_value_a(ch, call.channel_number, call.compare_value),
                 call.channel_number, call.compare_value)
    /\ wlog' = Append(wlog, IF call.channel_pin = "A" THEN "cc_a" ELSE "cc_b")
    /\ pc' = "set_enabled"
    /\ UNCHANGED <<clocks, call, ret, pre>>
    /\ UNCHANGED <<irq_vars, config>>

\* Mutant of start_set_compare_value: the compare value always goes to pin A
start_set_compare_value_always_a ==
    /\ pc = "set_compare_value"
    /\ ch' = set_compare_value_a(ch, call.channel_number, call.compare_value)
    /\ wlog' = Append(wlog, "cc_a")
    /\ pc' = "set_enabled"
    /\ UNCHANGED <<clocks, call, ret, pre>>
    /\ UNCHANGED <<irq_vars, config>>

\* start_pwm_pin: set_compare_value_a or set_compare_value_b, by channel_pin
start_set_compare_value ==
    /\ pc = "set_compare_value"
    /\ IF call.channel_pin = "A"
       THEN /\ ch' = set_compare_value_a(ch, call.channel_number, call.compare_value)
            /\ wlog' = Append(wlog, "cc_a")
       ELSE /\ ch' = set_compare_value_b(ch, call.channel_number, call.compare_value)
            /\ wlog' = Append(wlog, "cc_b")
    /\ pc' = "set_enabled"
    /\ UNCHANGED <<clocks, call, ret, pre>>
    /\ UNCHANGED <<irq_vars, config>>

\* Mutant of start_set_enabled: csr is written, not modified, so the other
\* control fields of the channel take their reset values
start_set_enabled_write_csr ==
    /\ pc = "set_enabled"
    /\ ch' = [ch EXCEPT ![call.channel_number].en = TRUE,
                        ![call.channel_number].ph_correct = FALSE,
                        ![call.channel_number].a_inv = FALSE,
                        ![call.channel_number].b_inv = FALSE,
                        ![call.channel_number].divmode = "FreeRunning"]
    /\ wlog' = Append(wlog, "en")
    /\ pc' = "idle"
    /\ ret' = "Ok"
    /\ UNCHANGED <<clocks, call, pre>>
    /\ UNCHANGED <<irq_vars, config>>

\* start_pwm_pin: self.set_enabled(channel_number, true); Ok(())
start_set_enabled ==
    /\ pc = "set_enabled"
    /\ ch' = set_enabled(ch, call.channel_number, TRUE)
    /\ wlog' = Append(wlog, "en")
    /\ pc' = "idle"
    /\ ret' = "Ok"
    /\ UNCHANGED <<clocks, call, pre>>
    /\ UNCHANGED <<irq_vars, config>>

\* Mutant of stop: the enable bit of every channel is cleared
stop_all_channels(pin) ==
    /\ pc = "idle"
    /\ call' = [NoCall EXCEPT !.op = "stop",
                              !.pin = pin,
                              !.channel_number = ChannelNumber_from(pin),
                              !.channel_pin = ChannelPin_from(pin)]
    /\ ch' = [c \in ChannelNumbers |-> [ch[c] EXCEPT !.en = FALSE]]
    /\ wlog' = <<"en">>
    /\ pre' = ch
    /\ ret' = "Ok"
    /\ UNCHANGED <<clocks, pc>>
    /\ UNCHANGED <<irq_vars, config>>

\* Mutant of stop: the compare values are cleared with the enable bit
stop_clear_compare(pin) ==
    /\ pc = "idle"
    /\ call' = [NoCall EXCEPT !.op = "stop",
                              !.pin = pin,
                              !.channel_number = ChannelNumber_from(pin),
                              !.channel_pin = ChannelPin_from(pin)]
    /\ ch' = set_compare_value_b(
                 set_compare_value_a(
                     set_enabled(ch, ChannelNumber_from(pin), FALSE),
                     ChannelNumber_from(pin), 0),
                 ChannelNumber_from(pin), 0)
    /\ wlog' = <<"en", "cc_a", "cc_b">>
    /\ pre' = ch
    /\ ret' = "Ok"
    /\ UNCHANGED <<clocks, pc>>
    /\ UNCHANGED <<irq_vars, config>>

\* Mutant of stop: the enable bit is cleared only when the pin is sub-pin A
stop_sub_pin_a(pin) ==
    /\ pc = "idle"
    /\ call' = [NoCall EXCEPT !.op = "stop",
                              !.pin = pin,
                              !.channel_number = ChannelNumber_from(pin),
                              !.channel_pin = ChannelPin_from(pin)]
    /\ ch' = IF ChannelPin_from(pin) = "A"
             THEN set_enabled(ch, ChannelNumber_from(pin), FALSE)
             ELSE ch
    /\ wlog' = <<"en">>
    /\ pre' = ch
    /\ ret' = "Ok"
    /\ UNCHANGED <<clocks, pc>>
    /\ UNCHANGED <<irq_vars, config>>

\* hil::pwm::Pwm::stop and Pwm::stop_pwm_channel
stop(pin) ==
    /\ pc = "idle"
    /\ call' = [NoCall EXCEPT !.op = "stop",
                              !.pin = pin,
                              !.channel_number = ChannelNumber_from(pin),
                              !.channel_pin = ChannelPin_from(pin)]
    /\ ch' = set_enabled(ch, ChannelNumber_from(pin), FALSE)
    /\ wlog' = <<"en">>
    /\ pre' = ch
    /\ ret' = "Ok"
    /\ UNCHANGED <<clocks, pc>>
    /\ UNCHANGED <<irq_vars, config>>

\* Pwm::configure_channel called with the caller's configuration value
Pwm_configure_channel(channel_number) ==
    /\ pc = "idle"
    /\ call' = [NoCall EXCEPT !.op = "configure_channel",
                              !.channel_number = channel_number]
    /\ ch' = configure_channel(ch, channel_number, config)
    /\ wlog' = configure_channel_writes
    /\ pre' = ch
    /\ ret' = "Ok"
    /\ UNCHANGED <<clocks, pc>>
    /\ UNCHANGED <<irq_vars, config>>

\* Pwm::set_divider_int_frac called on a channel
Pwm_set_divider_int_frac(channel_number, int, frac) ==
    /\ pc = "idle"
    /\ call' = [NoCall EXCEPT !.op = "set_divider_int_frac",
                              !.channel_number = channel_number,
                              !.int = int,
                              !.frac = frac]
    /\ ch' = set_divider_int_frac(ch, channel_number, int, frac)
    /\ wlog' = IF divider_rejected(int, frac) THEN <<>> ELSE <<"div_int", "div_frac">>
    /\ pre' = ch
    /\ ret' = "Ok"
    /\ UNCHANGED <<clocks, pc>>
    /\ UNCHANGED <<irq_vars, config>>

\* Pwm::set_mask_enabled called with a set of channels
Pwm_set_mask_enabled(mask) ==
    /\ pc = "idle"
    /\ call' = [NoCall EXCEPT !.op = "set_mask_enabled", !.mask = mask]
    /\ ch' = set_mask_enabled(ch, mask)
    /\ wlog' = <<"en">>
    /\ pre' = ch
    /\ ret' = "Ok"
    /\ UNCHANGED <<clocks, pc>>
    /\ UNCHANGED <<irq_vars, config>>

\* Pwm::set_enabled called on a channel
Pwm_set_enabled(channel_number, enable) ==
    /\ pc = "idle"
    /\ call' = [NoCall EXCEPT !.op = "set_enabled",
                              !.channel_number = channel_number]
    /\ ch' = set_enabled(ch, channel_number, enable)
    /\ wlog' = <<"en">>
    /\ pre' = ch
    /\ ret' = "Ok"
    /\ UNCHANGED <<clocks, pc>>
    /\ UNCHANGED <<irq_vars, config>>

\* A call of a setter that performs its register writes and returns
SetterCall(op, channel_number, bank, writes) ==
    /\ pc = "idle"
    /\ call' = [NoCall EXCEPT !.op = op, !.channel_number = channel_number]
    /\ ch' = bank
    /\ wlog' = writes
    /\ pre' = ch
    /\ ret' = "Ok"
    /\ UNCHANGED <<clocks, pc>>
    /\ UNCHANGED <<irq_vars, config>>

\* Pwm::set_ph_correct called on a channel
Pwm_set_ph_correct(channel_number, ph_correct) ==
    SetterCall("set_ph_correct", channel_number,
               set_ph_correct(ch, channel_number, ph_correct), <<"ph_correct">>)

\* Pwm::set_invert_polarity called on a channel
Pwm_set_invert_polarity(channel_number, a_inv, b_inv) ==
    SetterCall("set_invert_polarity", channel_number,
               set_invert_polarity(ch, channel_number, a_inv, b_inv),
               <<"a_inv", "b_inv">>)

\* Pwm::set_div_mode called on a channel
Pwm_set_div_mode(channel_number, divmode) ==
    SetterCall("set_div_mode", channel_number,
               set_div_mode(ch, channel_number, divmode), <<"divmode">>)

\* Pwm::set_compare_value_a called on a channel
Pwm_set_compare_value_a(channel_number, cc_a) ==
    SetterCall("set_compare_value_a", channel_number,
               set_compare_value_a(ch, channel_number, cc_a), <<"cc_a">>)

\* Pwm::set_compare_value_b called on a channel
Pwm_set_compare_value_b(channel_number, cc_b) ==
    SetterCall("set_compare_value_b", channel_number,
               set_compare_value_b(ch, channel_number, cc_b), <<"cc_b">>)

\* Pwm::advance_count: csr.modify(CSR::PH_ADV::SET), then poll
advance_count(channel_number) ==
    /\ pc = "idle"
    /\ call' = [NoCall EXCEPT !.op = "advance_count",
                              !.channel_number = channel_number]
    /\ ch' = [ch EXCEPT ![channel_number].ph_adv = TRUE]
    /\ wlog' = <<"ph_adv">>
    /\ pre' = ch
    /\ pc' = "advance_count_poll"
    /\ ret' = "pending"
    /\ UNCHANGED clocks
    /\ UNCHANGED <<irq_vars, config>>

\* Pwm::advance_count: while csr.read(CSR::PH_ADV) == 1 {}; the loop is left,
\* and the call returns, on a read that finds the bit low
advance_count_poll ==
    /\ pc = "advance_count_poll"
    /\ ~ch[call.channel_number].ph_adv
    /\ pc' = "idle"
    /\ ret' = "Ok"
    /\ UNCHANGED <<ch, clocks, call, pre, wlog>>
    /\ UNCHANGED <<irq_vars, config>>

\* Pwm::retard_count: csr.modify(CSR::PH_RET::SET), then poll
retard_count(channel_number) ==
    /\ pc = "idle"
    /\ call' = [NoCall EXCEPT !.op = "retard_count",
                              !.channel_number = channel_number]
    /\ ch' = [ch EXCEPT ![channel_number].ph_ret = TRUE]
    /\ wlog' = <<"ph_ret">>
    /\ pre' = ch
    /\ pc' = "retard_count_poll"
    /\ ret' = "pending"
    /\ UNCHANGED clocks
    /\ UNCHANGED <<irq_vars, config>>

\* Pwm::retard_count: while csr.read(CSR::PH_RET) == 1 {}
retard_count_poll ==
    /\ pc = "retard_count_poll"
    /\ ~ch[call.channel_number].ph_ret
    /\ pc' = "idle"
    /\ ret' = "Ok"
    /\ UNCHANGED <<ch, clocks, call, pre, wlog>>
    /\ UNCHANGED <<irq_vars, config>>

\* The divider of a channel is above 1: div_int + div_frac / 16 > 1
less_than_full_speed(regs) == regs.int * 16 + regs.frac > 16

\* Mutant of ph_ret_clears: the hardware completes the retardation on a
\* channel that is not enabled as well
ph_ret_clears_when_stopped(channel_number) ==
    /\ ch[channel_number].ph_ret
    /\ ch' = [ch EXCEPT ![channel_number].ph_ret = FALSE]
    /\ UNCHANGED <<clocks, pc, call, ret, pre, wlog>>
    /\ UNCHANGED <<irq_vars, config>>

\* The hardware completes a retardation and clears PH_RET: the counter must
\* be running.  The value of a running counter is not tracked.
ph_ret_clears(channel_number) ==
    /\ ch[channel_number].ph_ret
    /\ ch[channel_number].en
    /\ ch' = [ch EXCEPT ![channel_number].ph_ret = FALSE]
    /\ UNCHANGED <<clocks, pc, call, ret, pre, wlog>>
    /\ UNCHANGED <<irq_vars, config>>

\* The hardware completes an advance and clears PH_ADV: the divider must be
\* above 1, the channel need not be enabled.  The counter of a channel that
\* is not enabled goes up by one, or wraps from top to 0 and latches the raw
\* interrupt of the channel.
ph_adv_clears(channel_number) ==
    LET regs == ch[channel_number]
        wraps == ~regs.en /\ regs.ctr >= regs.top
        ctr == IF regs.en THEN regs.ctr
               ELSE IF wraps THEN 0 ELSE regs.ctr + 1
    IN  /\ regs.ph_adv
        /\ less_than_full_speed(regs)
        /\ ch' = [ch EXCEPT ![channel_number].ph_adv = FALSE,
                            ![channel_number].ctr = ctr]
        /\ intr' = IF wraps THEN intr \cup {channel_number} ELSE intr
        /\ UNCHANGED <<clocks, pc, call, ret, pre, wlog, config>>
        /\ UNCHANGED <<inte, intf, interrupt_handler, isr, ilog, ints_entry,
                       disturbed>>

\* PwmChannelConfiguration::set_divider_int_frac called on the caller's
\* configuration value
config_set_divider_int_frac(int, frac) ==
    /\ pc = "idle"
    /\ config' = cfg_set_divider_int_frac(config, int, frac)
    /\ UNCHANGED <<pwm_vars, irq_vars>>

\* PwmChannelConfiguration::set_enabled called on the caller's configuration
\* value
config_set_enabled(enable) ==
    /\ pc = "idle"
    /\ config' = cfg_set_enabled(config, enable)
    /\ UNCHANGED <<pwm_vars, irq_vars>>

\* Mutant of init: the loop stops before the last channel
init_skip_last_channel ==
    /\ pc \in {"new", "idle"}
    /\ pc' = "idle"
    /\ call' = [NoCall EXCEPT !.op = "init"]
    /\ ch' = [c \in ChannelNumbers |->
                 IF c = NUMBER_CHANNELS - 1 THEN ch[c] ELSE reset_registers]
    /\ wlog' = <<>>
    /\ pre' = ch
    /\ ret' = "Ok"
    /\ UNCHANGED clocks
    /\ UNCHANGED <<irq_vars, config>>

\* Mutant of init: the interrupt registers are reset as well
init_reset_interrupts ==
    /\ pc \in {"new", "idle"}
    /\ pc' = "idle"
    /\ call' = [NoCall EXCEPT !.op = "init"]
    /\ ch' = [c \in ChannelNumbers |-> reset_registers]
    /\ wlog' = <<>>
    /\ pre' = ch
    /\ ret' = "Ok"
    /\ intr' = {}
    /\ inte' = {}
    /\ intf' = {}
    /\ UNCHANGED <<clocks, config>>
    /\ UNCHANGED <<interrupt_handler, isr, ilog, ints_entry, disturbed>>

\* Mutant of init: the write to intr clears every latched interrupt
init_clear_latched ==
    /\ pc \in {"new", "idle"}
    /\ pc' = "idle"
    /\ call' = [NoCall EXCEPT !.op = "init"]
    /\ ch' = [c \in ChannelNumbers |-> reset_registers]
    /\ wlog' = <<>>
    /\ pre' = ch
    /\ ret' = "Ok"
    /\ intr' = {}
    /\ UNCHANGED <<clocks, config>>
    /\ UNCHANGED <<inte, intf, interrupt_handler, isr, ilog, ints_entry, disturbed>>

\* Pwm::init: configure every channel with default_config, counter to 0.
\* It is the first operation on the registers ("This method should be called
\* when setting up the kernel"), and may be called again later.
init ==
    /\ pc \in {"new", "idle"}
    /\ pc' = "idle"
    /\ call' = [NoCall EXCEPT !.op = "init"]
    /\ ch' = [c \in ChannelNumbers |-> reset_registers]
    /\ wlog' = <<>>
    /\ pre' = ch
    /\ ret' = "Ok"
    /\ intr' = intr \ {}  \* intr.write(CH::CH.val(0)): no bit is written as 1
    /\ UNCHANGED <<clocks, config>>
    /\ UNCHANGED <<inte, intf, interrupt_handler, isr, ilog, ints_entry, disturbed>>

\* Pwm::set_clocks
set_clocks(clock) ==
    /\ pc \in {"new", "idle"}
    /\ clocks' = <<clock>>
    /\ UNCHANGED <<ch, pc, call, ret, pre, wlog>>
    /\ UNCHANGED <<irq_vars, config>>

---------------------------------------------------------------------------
(* Interrupts *)

\* The interrupt context when handle_interrupt is not running
IsrIdle == [pc |-> "idle", channel_number |-> 0]

\* Interrupt registers at reset, no handler (Pwm::new), no interrupt in service
IrqReset ==
    /\ intr = {}
    /\ inte = {}
    /\ intf = {}
    /\ interrupt_handler = None
    /\ isr = IsrIdle
    /\ ilog = <<>>
    /\ ints_entry = {}
    /\ disturbed = FALSE

\* registers.ints: interrupt status after masking and forcing
ints == (intr \cap inte) \cup intf

\* Pwm::get_interrupt_status
get_interrupt_status(channel_number) == channel_number \in ints

\* An entry of ilog
Event(op, channel_number, handler) ==
    [op |-> op, channel_number |-> channel_number, handler |-> handler]

\* Mutant of enable_interrupt: the mask is overwritten with the channel's bit
enable_interrupt_overwrite(channel_number) ==
    /\ pc = "idle"
    /\ isr.pc = "idle"
    /\ inte' = {channel_number}
    /\ UNCHANGED <<pwm_vars, config>>
    /\ UNCHANGED <<intr, intf, interrupt_handler, isr, ilog, ints_entry, disturbed>>

\* Pwm::enable_interrupt: read inte, write it back with the channel's bit set
enable_interrupt(channel_number) ==
    /\ pc = "idle"
    /\ isr.pc = "idle"
    /\ inte' = inte \cup {channel_number}
    /\ UNCHANGED <<pwm_vars, config>>
    /\ UNCHANGED <<intr, intf, interrupt_handler, isr, ilog, ints_entry, disturbed>>

\* Mutant of disable_interrupt: the force bit of the channel is cleared too
disable_interrupt_unforce(channel_number) ==
    /\ pc = "idle"
    /\ isr.pc = "idle"
    /\ inte' = inte \ {channel_number}
    /\ intf' = intf \ {channel_number}
    /\ UNCHANGED <<pwm_vars, config>>
    /\ UNCHANGED <<intr, interrupt_handler, isr, ilog, ints_entry, disturbed>>

\* Pwm::disable_interrupt: read inte, write it back with the channel's bit clear
disable_interrupt(channel_number) ==
    /\ pc = "idle"
    /\ isr.pc = "idle"
    /\ inte' = inte \ {channel_number}
    /\ UNCHANGED <<pwm_vars, config>>
    /\ UNCHANGED <<intr, intf, interrupt_handler, isr, ilog, ints_entry, disturbed>>

\* Mutant of enable_mask_interrupt: the mask is or-ed into inte
enable_mask_interrupt_or(mask) ==
    /\ pc = "idle"
    /\ isr.pc = "idle"
    /\ inte' = inte \cup mask
    /\ UNCHANGED <<pwm_vars, config>>
    /\ UNCHANGED <<intr, intf, interrupt_handler, isr, ilog, ints_entry, disturbed>>

\* Pwm::enable_mask_interrupt: the mask is written to inte as it is
enable_mask_interrupt(mask) ==
    /\ pc = "idle"
    /\ isr.pc = "idle"
    /\ inte' = mask
    /\ UNCHANGED <<pwm_vars, config>>
    /\ UNCHANGED <<intr, intf, interrupt_handler, isr, ilog, ints_entry, disturbed>>

\* Pwm::force_interrupt: let mask = self.registers.intf.read(CH::CH)
force_interrupt(channel_number) ==
    /\ pc = "idle"
    /\ isr.pc = "idle"
    /\ call' = [NoCall EXCEPT !.op = "force_interrupt",
                              !.channel_number = channel_number,
                              !.mask = intf]
    /\ pc' = "force_interrupt_modify"
    /\ UNCHANGED <<ch, clocks, ret, pre, wlog, config, irq_vars>>

\* Pwm::force_interrupt: intf.modify(CH::CH.val(mask | 1 << channel_number))
force_interrupt_modify ==
    /\ pc = "force_interrupt_modify"
    /\ isr.pc = "idle"
    /\ intf' = call.mask \cup {call.channel_number}
    /\ call' = [call EXCEPT !.mask = {}]
    /\ pc' = "idle"
    /\ UNCHANGED <<ch, clocks, ret, pre, wlog, config>>
    /\ UNCHANGED <<intr, inte, interrupt_handler, isr, ilog, ints_entry, disturbed>>

\* Mutant of set_interrupt_handler: a handler already registered is kept in
\* front of the new one
set_interrupt_handler_keep_first(handler) ==
    /\ pc = "idle"
    /\ isr.pc = "idle"
    /\ interrupt_handler' = IF interrupt_handler = None
                            THEN <<handler>>
                            ELSE <<interrupt_handler[1], handler>>
    /\ UNCHANGED <<pwm_vars, config>>
    /\ UNCHANGED <<intr, inte, intf, isr, ilog, ints_entry, disturbed>>

\* Pwm::set_interrupt_handler
set_interrupt_handler(handler) ==
    /\ pc = "idle"
    /\ isr.pc = "idle"
    /\ interrupt_handler' = <<handler>>
    /\ UNCHANGED <<pwm_vars, config>>
    /\ UNCHANGED <<intr, inte, intf, isr, ilog, ints_entry, disturbed>>

\* The counter of a channel wraps: the hardware latches the raw interrupt
counter_wrap(channel_number) ==
    /\ channel_number \notin intr
    /\ intr' = intr \cup {channel_number}
    /\ disturbed' = (disturbed \/ isr.pc # "idle")
    /\ UNCHANGED <<pwm_vars, config>>
    /\ UNCHANGED <<inte, intf, interrupt_handler, isr, ilog, ints_entry>>

\* Pwm::handle_interrupt is entered, preempting the foreground
handle_interrupt ==
    /\ isr.pc = "idle"
    /\ isr' = [pc |-> "get_interrupt_status", channel_number |-> 0]
    /\ ilog' = <<>>
    /\ ints_entry' = ints
    /\ disturbed' = FALSE
    /\ UNCHANGED <<pwm_vars, config>>
    /\ UNCHANGED <<intr, inte, intf, interrupt_handler>>

\* Mutant of NextChannel: the array lists the channels as Ch0, Ch7, Ch6 .. Ch1
NextChannel_other_order ==
    IF isr.channel_number = 1
    THEN IsrIdle
    ELSE [pc |-> "get_interrupt_status",
          channel_number |-> IF isr.channel_number = 0
                             THEN NUMBER_CHANNELS - 1
                             ELSE isr.channel_number - 1]

\* handle_interrupt: the next iteration of the loop over Ch0 .. Ch7
NextChannel ==
    IF isr.channel_number = NUMBER_CHANNELS - 1
    THEN IsrIdle
    ELSE [pc |-> "get_interrupt_status", channel_number |-> isr.channel_number + 1]

\* Mutant of handle_get_interrupt_status: the raw latch is tested, not the
\* status after masking and forcing
handle_get_interrupt_status_raw ==
    /\ isr.pc = "get_interrupt_status"
    /\ isr' = IF isr.channel_number \in intr
              THEN [isr EXCEPT !.pc = "fired"]
              ELSE NextChannel
    /\ UNCHANGED <<pwm_vars, config>>
    /\ UNCHANGED <<intr, inte, intf, interrupt_handler, ilog, ints_entry, disturbed>>

\* handle_interrupt: if self.get_interrupt_status(channel_number)
handle_get_interrupt_status ==
    /\ isr.pc = "get_interrupt_status"
    /\ isr' = IF get_interrupt_status(isr.channel_number)
              THEN [isr EXCEPT !.pc = "fired"]
              ELSE NextChannel
    /\ UNCHANGED <<pwm_vars, config>>
    /\ UNCHANGED <<intr, inte, intf, interrupt_handler, ilog, ints_entry, disturbed>>

\* Mutant of handle_fired: without a handler the interrupt is not cleared
handle_fired_skip_without_handler ==
    /\ isr.pc = "fired"
    /\ ilog' = IF interrupt_handler = None
               THEN ilog
               ELSE Append(ilog, Event("fired", isr.channel_number,
                                       interrupt_handler[1]))
    /\ isr' = IF interrupt_handler = None
              THEN NextChannel
              ELSE [isr EXCEPT !.pc = "clear_interrupt"]
    /\ UNCHANGED <<pwm_vars, config>>
    /\ UNCHANGED <<intr, inte, intf, interrupt_handler, ints_entry, disturbed>>

\* Mutant of handle_fired: the interrupt is cleared and unforced before the
\* handler is notified
handle_fired_after_clear ==
    /\ isr.pc = "fired"
    /\ intr' = intr \ {isr.channel_number}
    /\ intf' = intf \ {isr.channel_number}
    /\ ilog' = ilog \o <<Event("clear_interrupt", isr.channel_number, ""),
                         Event("unforce_interrupt", isr.channel_number, "")>>
                    \o (IF interrupt_handler = None
                        THEN <<>>
                        ELSE <<Event("fired", isr.channel_number,
                                     interrupt_handler[1])>>)
    /\ isr' = NextChannel
    /\ UNCHANGED <<pwm_vars, config>>
    /\ UNCHANGED <<inte, interrupt_handler, ints_entry, disturbed>>

\* handle_interrupt: self.interrupt_handler.map(|handler| handler.fired(..))
handle_fired ==
    /\ isr.pc = "fired"
    /\ ilog' = IF interrupt_handler = None
               THEN ilog
               ELSE Append(ilog, Event("fired", isr.channel_number,
                                       interrupt_handler[1]))
    /\ isr' = [isr EXCEPT !.pc = "clear_interrupt"]
    /\ UNCHANGED <<pwm_vars, config>>
    /\ UNCHANGED <<intr, inte, intf, interrupt_handler, ints_entry, disturbed>>

\* handle_interrupt: self.clear_interrupt(channel_number), a write of
\* 1 << channel_number to intr
handle_clear_interrupt ==
    /\ isr.pc = "clear_interrupt"
    /\ intr' = intr \ {isr.channel_number}
    /\ ilog' = Append(ilog, Event("clear_interrupt", isr.channel_number, ""))
    /\ isr' = [isr EXCEPT !.pc = "unforce_interrupt"]
    /\ UNCHANGED <<pwm_vars, config>>
    /\ UNCHANGED <<inte, intf, interrupt_handler, ints_entry, disturbed>>

\* Mutant of handle_unforce_interrupt: the force bit is left as it is
handle_unforce_interrupt_keep ==
    /\ isr.pc = "unforce_interrupt"
    /\ ilog' = Append(ilog, Event("unforce_interrupt", isr.channel_number, ""))
    /\ isr' = NextChannel
    /\ UNCHANGED <<pwm_vars, config>>
    /\ UNCHANGED <<intr, inte, intf, interrupt_handler, ints_entry, disturbed>>

\* handle_interrupt: self.unforce_interrupt(channel_number), intf read and
\* written back with the channel's bit clear
handle_unforce_interrupt ==
    /\ isr.pc = "unforce_interrupt"
    /\ intf' = intf \ {isr.channel_number}
    /\ ilog' = Append(ilog, Event("unforce_interrupt", isr.channel_number, ""))
    /\ isr' = NextChannel
    /\ UNCHANGED <<pwm_vars, config>>
    /\ UNCHANGED <<intr, inte, interrupt_handler, ints_entry, disturbed>>

---------------------------------------------------------------------------
(* Specifications *)

\* The steps of a start call in flight
StartSteps ==
    \/ start_pwm_pin
    \/ start_set_top
    \/ start_set_divider_int
    \/ start_set_divider_frac
    \/ start_set_compare_value
    \/ start_set_enabled

\* Pwm::new: no clock; the registers hold their reset values or what an
\* earlier run left in them
Init ==
    /\ ch \in {[c \in ChannelNumbers |-> reset_registers],
               [c \in ChannelNumbers |-> stale_registers]}
    /\ clocks = None
    /\ pc = "new"
    /\ call = NoCall
    /\ ret = "none"
    /\ pre = ch
    /\ wlog = <<>>
    /\ IrqReset
    /\ config = default_config

\* The frequency the planner is given when no clock is known yet: any value
\* leads to the panic
FreqsFor(cell) == IF cell = None THEN {1} ELSE ModelFreqs(cell[1])

Next ==
    \/ \E clock \in ModelClocks : set_clocks(clock)
    \/ init
    \/ \E pin \in ModelPins, f \in FreqsFor(clocks), d \in ModelDuties :
           start(pin, f, d)
    \/ \E pin \in StopPins : stop(pin)
    \/ StartSteps

Spec == Init /\ [][Next]_vars

\* Frequencies SpecPlanner tries with the two extreme duty cycles
PlanLowFreqs == 1 .. MaxLowFreq

\* Frequencies SpecPlanner tries with every duty cycle of PlanDuties: the
\* neighbourhood of the threshold, the integer fractions of the clock, and
\* the frequencies just above the multiples of the threshold
PlanSampleFreqs(clock) ==
    LET threshold == clock \div get_maximum_duty_cycle
    IN  {threshold + k : k \in 0 .. MaxAbove}
        \cup {clock \div k : k \in 1 .. MaxDivisor}
        \cup {(threshold * k) + 1 : k \in 1 .. MaxDivisor}

\* Duty cycles tried by SpecPlanner
PlanDuties ==
    {k * (get_maximum_duty_cycle \div DutySteps) : k \in 0 .. DutySteps}
    \cup {1, get_maximum_duty_cycle - 1, get_maximum_duty_cycle}

\* The <<frequency_hz, duty_cycle>> pairs SpecPlanner tries for a clock
PlanInputs(clock) ==
    (PlanLowFreqs \X {0, get_maximum_duty_cycle})
    \cup (PlanSampleFreqs(clock) \X PlanDuties)

\* Pins used by SpecPlanner: 4 -> 2A, 5 -> 2B
PlanPins == {4, 5}

\* An initialised peripheral with a clock, and a start call just entered
InitPlanner ==
    /\ ch = [c \in ChannelNumbers |-> reset_registers]
    /\ clocks \in {<<clock>> : clock \in ClockChoices}
    /\ pc = "start_pwm_pin"
    /\ \E pin \in PlanPins : \E fd \in PlanInputs(clocks[1]) :
           call = [NoCall EXCEPT !.op = "start",
                                 !.pin = pin,
                                 !.channel_number = ChannelNumber_from(pin),
                                 !.channel_pin = ChannelPin_from(pin),
                                 !.frequency_hz = fd[1],
                                 !.duty_cycle = fd[2]]
    /\ ret = "pending"
    /\ pre = ch
    /\ wlog = <<>>
    /\ IrqReset
    /\ config = default_config

NextPlanner == StartSteps

SpecPlanner == InitPlanner /\ [][NextPlanner]_vars

\* The GPIO pins on which the same PWM output as on pin can be selected
Aliases(pin) == {q \in GpioPins : q = pin \/ q = pin + 16 \/ q = pin - 16}

\* Duty cycles SpecPins starts with: 75%, 100%
PinDuties == {(get_maximum_duty_cycle \div 4) * 3, get_maximum_duty_cycle}

\* An initialised peripheral with a clock, and a start call just entered
\* through any GPIO pin
InitPins ==
    /\ ch = [c \in ChannelNumbers |-> reset_registers]
    /\ clocks \in {<<clock>> : clock \in ModelClocks}
    /\ pc = "start_pwm_pin"
    /\ \E pin \in GpioPins : \E d \in PinDuties :
           call = [NoCall EXCEPT !.op = "start",
                                 !.pin = pin,
                                 !.channel_number = ChannelNumber_from(pin),
                                 !.channel_pin = ChannelPin_from(pin),
                                 !.frequency_hz = clocks[1] \div 4,
                                 !.duty_cycle = d]
    /\ ret = "pending"
    /\ pre = ch
    /\ wlog = <<>>
    /\ IrqReset
    /\ config = default_config

\* The start runs to its end; the output is then stopped through the pin it
\* was started on or through the other pin that selects the same output
NextPins ==
    \/ StartSteps
    \/ \E pin \in Aliases(call.pin) : stop(pin)

SpecPins == InitPins /\ [][NextPins]_vars

\* Integral parts SpecConfig passes to the divider setters
DividerInts == {0, 1, 255}

\* Fractional parts SpecConfig passes to the divider setters
DividerFracs == {15, 16}

\* Masks SpecConfig passes to set_mask_enabled
EnableMasks == {{0}, {0, 1}}

\* Channels SpecConfig configures
ConfigChannels == {0, 1}

\* Pin SpecConfig starts and stops: 2 -> 1A
ConfigPins == {2}

\* Frequencies SpecConfig starts with: about half the threshold (divider
\* 1 + 14/16 at 125 MHz), a quarter of the clock
ConfigFreqs(clock) == {(clock \div get_maximum_duty_cycle) \div 2 + 47, clock \div 4}

\* An initialised peripheral with a clock; the caller holds a configuration
\* value
InitConfig ==
    /\ ch = [c \in ChannelNumbers |-> reset_registers]
    /\ clocks \in {<<clock>> : clock \in ModelClocks}
    /\ pc = "idle"
    /\ call = NoCall
    /\ ret = "none"
    /\ pre = ch
    /\ wlog = <<>>
    /\ IrqReset
    /\ config \in {default_config, test_config}

NextConfig ==
    \/ \E int \in DividerInts, frac \in DividerFracs :
           config_set_divider_int_frac(int, frac)
    \/ \E enable \in BOOLEAN : config_set_enabled(enable)
    \/ \E c \in ConfigChannels : Pwm_configure_channel(c)
    \/ \E c \in ConfigChannels, int \in DividerInts, frac \in DividerFracs :
           Pwm_set_divider_int_frac(c, int, frac)
    \/ \E mask \in EnableMasks : Pwm_set_mask_enabled(mask)
    \/ \E pin \in ConfigPins, f \in ConfigFreqs(clocks[1]) :
           start(pin, f, (get_maximum_duty_cycle \div 4) * 3)
    \/ StartSteps
    \/ \E pin \in ConfigPins : stop(pin)
    \/ init

SpecConfig == InitConfig /\ [][NextConfig]_vars

\* Channels whose interrupt SpecIrq enables, and whose counter wraps
IrqChannels == {3, 7}

\* Channels whose interrupt SpecIrq forces
ForceChannels == {0, 3, 7}

\* Handlers SpecIrq registers
Handlers == {"client"}

\* Pins SpecIrq stops: 0 -> 0A
IrqStopPins == {0}

\* The steps of handle_interrupt
HandleSteps ==
    \/ handle_get_interrupt_status
    \/ handle_fired
    \/ handle_clear_interrupt
    \/ handle_unforce_interrupt

\* An initialised peripheral with a clock; channel 0 has been started through
\* pin 0 at a quarter of the clock and 75% duty
InitIrq ==
    /\ ch = [c \in ChannelNumbers |->
                IF c = 0
                THEN [reset_registers EXCEPT !.top = 3, !.cc_a = 3, !.en = TRUE]
                ELSE reset_registers]
    /\ clocks \in {<<clock>> : clock \in ModelClocks}
    /\ pc = "idle"
    /\ call = NoCall
    /\ ret = "none"
    /\ pre = ch
    /\ wlog = <<>>
    /\ IrqReset
    /\ config = default_config

\* The foreground runs while no interrupt is in service; the hardware and
\* the interrupt run at any time
NextIrq ==
    \/ \E c \in IrqChannels : enable_interrupt(c)
    \/ \E c \in IrqChannels : disable_interrupt(c)
    \/ \E c \in ForceChannels : force_interrupt(c)
    \/ force_interrupt_modify
    \/ \E h \in Handlers : set_interrupt_handler(h)
    \/ isr.pc = "idle" /\ \E pin \in IrqStopPins : stop(pin)
    \/ \E c \in IrqChannels : counter_wrap(c)
    \/ handle_interrupt
    \/ HandleSteps

SpecIrq == InitIrq /\ [][NextIrq]_vars

\* Channel SpecOps works on through every operation
OpsChannel == 1

\* Pin SpecOps starts and stops: 2 -> 1A
OpsPins == {2}

\* Pin of the other channel SpecOps stops: 0 -> 0A
OpsOtherPins == {0}

\* Frequencies SpecOps starts with: 1 Hz (no divider reaches it), a quarter
\* of the clock
OpsFreqs(clock) == {1, clock \div 4}

\* Masks SpecOps passes to enable_mask_interrupt
InterruptMasks == {{}, {OpsChannel}}

\* Handlers SpecOps registers
OpsHandlers == {"client", "other"}

\* An initialised peripheral with a clock, no handler; the caller holds the
\* configuration value of the unit test
InitOps ==
    /\ ch = [c \in ChannelNumbers |-> reset_registers]
    /\ clocks \in {<<clock>> : clock \in ModelClocks}
    /\ pc = "idle"
    /\ call = NoCall
    /\ ret = "none"
    /\ pre = ch
    /\ wlog = <<>>
    /\ IrqReset
    /\ config = test_config

\* The foreground calls of SpecOps
OpsForeground ==
    \/ \E pin \in OpsPins, f \in OpsFreqs(clocks[1]) :
           start(pin, f, (get_maximum_duty_cycle \div 4) * 3)
    \/ StartSteps
    \/ \E pin \in OpsPins \cup OpsOtherPins : stop(pin)
    \/ init
    \/ \E enable \in BOOLEAN : config_set_enabled(enable)
    \/ Pwm_configure_channel(OpsChannel)
    \/ \E enable \in BOOLEAN : Pwm_set_enabled(OpsChannel, enable)

\* Every public operation: the foreground runs while no interrupt is in
\* service; the hardware and the interrupt run at any time
NextOps ==
    \/ isr.pc = "idle" /\ OpsForeground
    \/ enable_interrupt(OpsChannel)
    \/ disable_interrupt(OpsChannel)
    \/ \E mask \in InterruptMasks : enable_mask_interrupt(mask)
    \/ force_interrupt(OpsChannel)
    \/ force_interrupt_modify
    \/ \E h \in OpsHandlers : set_interrupt_handler(h)
    \/ counter_wrap(OpsChannel)
    \/ handle_interrupt
    \/ HandleSteps

SpecOps == InitOps /\ [][NextOps]_vars

\* Channels SpecPhase works on
PhaseChannels == {0, 1}

\* Dividers SpecPhase programs: 1 (full speed), 2, 1 + 1/16
PhaseDividers == {<<1, 0>>, <<2, 0>>, <<1, 1>>}

\* An initialised peripheral; the top of the channels SpecPhase works on has
\* been set to 1
InitPhase ==
    /\ ch = [c \in ChannelNumbers |->
                IF c \in PhaseChannels
                THEN [reset_registers EXCEPT !.top = 1]
                ELSE reset_registers]
    /\ clocks \in {<<clock>> : clock \in ModelClocks}
    /\ pc = "idle"
    /\ call = NoCall
    /\ ret = "none"
    /\ pre = ch
    /\ wlog = <<>>
    /\ IrqReset
    /\ config = default_config

\* The hardware completes a phase advance or retardation
PhaseHardware ==
    \/ \E c \in PhaseChannels : ph_adv_clears(c)
    \/ \E c \in PhaseChannels : ph_ret_clears(c)

\* The polling loops of advance_count and retard_count
PhasePolls ==
    \/ advance_count_poll
    \/ retard_count_poll

NextPhase ==
    \/ \E c \in PhaseChannels, enable \in BOOLEAN : Pwm_set_enabled(c, enable)
    \/ \E c \in PhaseChannels, d \in PhaseDividers :
           Pwm_set_divider_int_frac(c, d[1], d[2])
    \/ \E c \in PhaseChannels : advance_count(c)
    \/ \E c \in PhaseChannels : retard_count(c)
    \/ PhasePolls
    \/ PhaseHardware

\* The hardware acts on a pending request whose condition holds, and the
\* polling loop keeps reading the bit
SpecPhase ==
    /\ InitPhase
    /\ [][NextPhase]_vars
    /\ WF_vars(PhaseHardware)
    /\ WF_vars(PhasePolls)

\* Channels whose interrupt SpecMask enables and disables one by one, and
\* whose counter wraps
MaskChannels == {1, 2}

\* Masks SpecMask passes to enable_mask_interrupt; channel 0 is enabled
\* through a mask only
MaskChoices == {{}, {0}, {0, 1}}

\* An initialised peripheral with a clock and no handler
InitMask ==
    /\ ch = [c \in ChannelNumbers |-> reset_registers]
    /\ clocks \in {<<clock>> : clock \in ModelClocks}
    /\ pc = "idle"
    /\ call = NoCall
    /\ ret = "none"
    /\ pre = ch
    /\ wlog = <<>>
    /\ IrqReset
    /\ config = default_config

\* The interrupt enable operations, the hardware and the interrupt
NextMask ==
    \/ \E c \in MaskChannels : enable_interrupt(c)
    \/ \E c \in MaskChannels : disable_interrupt(c)
    \/ \E mask \in MaskChoices : enable_mask_interrupt(mask)
    \/ \E h \in Handlers : set_interrupt_handler(h)
    \/ \E c \in MaskChannels : counter_wrap(c)
    \/ handle_interrupt
    \/ HandleSteps

SpecMask == InitMask /\ [][NextMask]_vars

\* Channel SpecSetters addresses: the last
SetterChannels == {7}

\* Divider modes SpecSetters programs
SetterDivModes == {"FreeRunning", "Rising"}

\* Compare value SpecSetters programs
SetterCompares == {2022}

\* A peripheral as the unit test of the setters finds it: initialised, or
\* holding the values of an earlier run
InitSetters ==
    /\ ch \in {[c \in ChannelNumbers |-> reset_registers],
               [c \in ChannelNumbers |-> stale_registers]}
    /\ clocks \in {<<clock>> : clock \in ModelClocks}
    /\ pc = "idle"
    /\ call = NoCall
    /\ ret = "none"
    /\ pre = ch
    /\ wlog = <<>>
    /\ IrqReset
    /\ config = default_config

NextSetters ==
    \E c \in SetterChannels :
        \/ \E enable \in BOOLEAN : Pwm_set_enabled(c, enable)
        \/ \E ph_correct \in BOOLEAN : Pwm_set_ph_correct(c, ph_correct)
        \/ \E a_inv \in BOOLEAN, b_inv \in BOOLEAN :
               Pwm_set_invert_polarity(c, a_inv, b_inv)
        \/ \E divmode \in SetterDivModes : Pwm_set_div_mode(c, divmode)
        \/ \E cc_a \in SetterCompares : Pwm_set_compare_value_a(c, cc_a)
        \/ \E cc_b \in SetterCompares : Pwm_set_compare_value_b(c, cc_b)

SpecSetters == InitSetters /\ [][NextSetters]_vars

---------------------------------------------------------------------------
(* Properties of start (checked under Spec) *)

\* The last call is a start that has returned
StartReturned == pc = "idle" /\ call.op = "start"

\* The channel a pin belongs to: (pin >> 1) mod 8
PinChannel(pin) == (pin \div 2) % NUMBER_CHANNELS

\* The compare register of the pin's own sub-pin: A for even pins, B for odd
OwnCompare(regs, pin) == IF pin % 2 = 0 THEN regs.cc_a ELSE regs.cc_b

\* The writes of a successful start, in program order
StartWrites(pin) ==
    <<"top", "div_int", "div_frac", IF pin % 2 = 0 THEN "cc_a" ELSE "cc_b", "en">>

\* C1: a start for which both planner steps succeed returns Ok and leaves
\* the pin's channel with top, divider and the pin's own compare value equal
\* to the solved values, and with the enable bit set.
C1_StartProgramsChannel ==
    StartReturned =>
        LET r    == compute_top_int_frac(clocks[1], call.frequency_hz)
            c    == compare_value(r.top, call.duty_cycle)
            regs == ch[PinChannel(call.pin)]
        IN  (r.ok /\ c.ok) =>
                /\ ret = "Ok"
                /\ regs.top = r.top
                /\ regs.int = r.int
                /\ regs.frac = r.frac
                /\ OwnCompare(regs, call.pin) = c.value
                /\ regs.en

\* Witness of C1: a start on a B pin succeeded at 100% duty with top = 3
C1_Witness ==
    /\ StartReturned
    /\ ret = "Ok"
    /\ call.pin = 1
    /\ ch[0].top = 3
    /\ ch[0].cc_b = 4
    /\ ch[0].en

\* C2: the writes of a start are issued in the order top, divider, compare,
\* enable, and a channel that was stopped at entry is seen enabled only once
\* top, divider and the pin's compare value hold the values of this call.
C2_StartWriteOrder ==
    call.op = "start" =>
        LET regs == ch[PinChannel(call.pin)]
        IN  /\ Len(wlog) <= 5
            /\ wlog = SubSeq(StartWrites(call.pin), 1, Len(wlog))
            /\ (StartReturned /\ ret = "Ok") => Len(wlog) = 5
            /\ (~pre[PinChannel(call.pin)].en /\ regs.en) =>
                   /\ regs.top = call.top
                   /\ regs.int = call.int
                   /\ regs.frac = call.frac
                   /\ OwnCompare(regs, call.pin) = call.compare_value

\* Witness of C2: a start on a stopped channel is in flight, top and divider
\* already written with new values, the channel still disabled
C2_Witness ==
    /\ call.op = "start"
    /\ pc = "set_compare_value"
    /\ wlog = <<"top", "div_int", "div_frac">>
    /\ ~pre[PinChannel(call.pin)].en
    /\ ~ch[PinChannel(call.pin)].en
    /\ ch[PinChannel(call.pin)].top # pre[PinChannel(call.pin)].top

\* The start that returned failed in one of the planner steps
StartPlanFailed ==
    LET r == compute_top_int_frac(clocks[1], call.frequency_hz)
    IN  ~r.ok \/ ~compare_value(r.top, call.duty_cycle).ok

\* C3: a start of which a planner step fails returns INVAL and leaves the
\* enable bit of the channel as it was at entry.
C3_FailedStartKeepsEnable ==
    (StartReturned /\ StartPlanFailed) =>
        /\ ret = "INVAL"
        /\ ch[PinChannel(call.pin)].en = pre[PinChannel(call.pin)].en

\* Witness of C3: a start failed on a channel that was and stays enabled
C3_Witness ==
    /\ StartReturned
    /\ ret = "INVAL"
    /\ pre[PinChannel(call.pin)].en
    /\ ch[PinChannel(call.pin)].en

\* The start that returned failed in the compare solve: top and divider were
\* solved, 100% duty was asked for with top = 65535
CompareSolveFailed ==
    /\ StartReturned
    /\ ret = "INVAL"
    /\ compute_top_int_frac(clocks[1], call.frequency_hz).ok
    /\ call.duty_cycle = 65536

\* C4 as stated: when start fails in the compare solve, the top and divider
\* solved for the call have been written to the channel.
C4_Original ==
    CompareSolveFailed =>
        LET r    == compute_top_int_frac(clocks[1], call.frequency_hz)
            regs == ch[PinChannel(call.pin)]
        IN  regs.top = r.top /\ regs.int = r.int /\ regs.frac = r.frac

\* C4 amended: when start fails in the compare solve, no register has been
\* written: every channel, top and divider included, is as it was at entry.
C4_FailedCompareWritesNothing ==
    CompareSolveFailed => (ch = pre /\ wlog = <<>>)

\* Witness of C4: the compare solve failed on a channel whose top is not the
\* top solved for the failed call
C4_Witness ==
    /\ CompareSolveFailed
    /\ ch[PinChannel(call.pin)].top = 3
    /\ compute_top_int_frac(clocks[1], call.frequency_hz).top = 65535

---------------------------------------------------------------------------
(* Properties of the frequency / duty planner (checked under SpecPlanner) *)

\* The planner steps of the start call have run
Planned == call.op = "start" /\ pc # "start_pwm_pin" /\ pc # "panic"

\* threshold_hz = system_clock_hz div 65536
Threshold == clocks[1] \div 65536

\* The start call took the branch without divider
NoDividerBranch ==
    Threshold < call.frequency_hz /\ call.frequency_hz <= clocks[1]

\* The start call took the divider branch, with a positive frequency
DividerBranch == 1 <= call.frequency_hz /\ call.frequency_hz <= Threshold

\* The solved divider in sixteenths: 16 * (int + frac / 16)
Sixteenths == 16 * call.int + call.frac

\* C5: for threshold < frequency <= clock the solver succeeds with divider
\* (1, 0) and top = (clock div frequency) - 1.
C5_NoDividerAboveThreshold ==
    (Planned /\ NoDividerBranch) =>
        /\ call.solved
        /\ call.int = 1
        /\ call.frac = 0
        /\ call.top = (clocks[1] \div call.frequency_hz) - 1

\* Witness of C5: the frequency just above the threshold was solved, with a
\* top just below the maximum
C5_Witness ==
    /\ Planned
    /\ call.frequency_hz = Threshold + 1
    /\ call.solved
    /\ call.top > 65000
    /\ call.top < 65535

\* C6: for 0 < frequency <= threshold, a successful solve returns top = 65535,
\* int = floor(threshold / frequency) in 1..255 and
\* frac = floor((threshold / frequency - int) * 16) in 0..15, so that
\* int + frac/16 is at most threshold / frequency and less than 1/16 below it.
C6_DividerIsFloorInSixteenths ==
    (Planned /\ DividerBranch /\ call.solved) =>
        /\ call.top = 65535
        /\ call.int = Threshold \div call.frequency_hz
        /\ call.int \in 1 .. 255
        /\ call.frac = ((Threshold % call.frequency_hz) * 16) \div call.frequency_hz
        /\ call.frac \in 0 .. 15
        /\ Sixteenths * call.frequency_hz <= 16 * Threshold
        /\ 16 * Threshold < (Sixteenths + 1) * call.frequency_hz

\* Witness of C6: a divider with a fractional part was solved (2 + 8/16)
C6_Witness ==
    /\ Planned
    /\ DividerBranch
    /\ call.solved
    /\ call.int = 2
    /\ call.frac = 8
    /\ 2 * Threshold # 5 * call.frequency_hz

\* C7 as stated: in the divider branch a successful solve returns a divider
\* strictly greater than 1.
C7_Original ==
    (Planned /\ DividerBranch /\ call.solved) => Sixteenths > 16

\* C7 amended: in the divider branch a successful solve returns a divider of
\* at least 1; it is strictly greater than 1 exactly when
\* threshold / frequency >= 17/16, and is 1 otherwise (as at frequency =
\* threshold).
C7_DividerAtLeastOne ==
    (Planned /\ DividerBranch /\ call.solved) =>
        /\ Sixteenths >= 16
        /\ (Sixteenths > 16) <=> (16 * Threshold >= 17 * call.frequency_hz)

\* Witness of C7: the threshold frequency itself was solved with divider 1
C7_Witness ==
    /\ Planned
    /\ call.frequency_hz = Threshold
    /\ call.solved
    /\ call.top = 65535
    /\ call.int = 1
    /\ call.frac = 0

\* C8: for 0 < frequency <= threshold the solver fails exactly when
\* threshold / frequency >= 256, and the start then returns INVAL.
C8_TooLowFrequencyFails ==
    (Planned /\ DividerBranch) =>
        /\ (~call.solved) <=> (Threshold >= 256 * call.frequency_hz)
        /\ (Threshold >= 256 * call.frequency_hz) =>
               (pc = "idle" /\ ret = "INVAL")

\* Witness of C8: the start failed at a divider of exactly 256
C8_Witness ==
    /\ Planned
    /\ DividerBranch
    /\ Threshold = 256 * call.frequency_hz
    /\ ~call.solved
    /\ ret = "INVAL"

\* C9: at duty_cycle = 65536 the compare solve fails when top = 65535 and
\* gives top + 1 for every smaller top.
C9_FullDutyCompare ==
    (Planned /\ call.solved /\ call.duty_cycle = 65536) =>
        IF call.top = 65535
        THEN pc = "idle" /\ ret = "INVAL" /\ wlog = <<>>
        ELSE /\ ret # "INVAL"
             /\ call.compare_value = call.top + 1
             /\ ret = "Ok" =>
                    OwnCompare(ch[PinChannel(call.pin)], call.pin) = call.top + 1

\* Witness of C9: 100% duty was refused at top = 65535
C9_Witness ==
    /\ Planned
    /\ call.solved
    /\ call.duty_cycle = 65536
    /\ call.top = 65535
    /\ ret = "INVAL"

\* floor(t * d / 65536) for 0 <= t <= 65536 and 0 <= d < 65536, computed on
\* the high and low byte of t
FloorScaled(t, d) == ((t \div 256) * d + ((t % 256) * d) \div 256) \div 256

\* C10: for 0 <= duty_cycle < 65536 the compare value is
\* floor((top + 1) * duty_cycle / 65536); it is 0 at duty_cycle 0, never
\* exceeds top, is non-decreasing in duty_cycle, and is the value programmed.
C10_PartialDutyCompare ==
    (Planned /\ call.solved /\ call.duty_cycle < 65536) =>
        /\ ret # "INVAL"
        /\ call.compare_value = FloorScaled(call.top + 1, call.duty_cycle)
        /\ call.duty_cycle = 0 => call.compare_value = 0
        /\ call.compare_value <= call.top
        /\ \A d \in PlanDuties :
               /\ d <= call.duty_cycle =>
                      compare_value(call.top, d).value <= call.compare_value
               /\ (call.duty_cycle <= d /\ d < 65536) =>
                      call.compare_value <= compare_value(call.top, d).value
        /\ ret = "Ok" =>
               OwnCompare(ch[PinChannel(call.pin)], call.pin) = call.compare_value

\* Witness of C10: the largest partial duty cycle was programmed with a
\* compare value equal to a top in the middle of the range
C10_Witness ==
    /\ Planned
    /\ ret = "Ok"
    /\ call.duty_cycle = 65535
    /\ call.top > 1000
    /\ call.top < 65535
    /\ call.compare_value = call.top
    /\ OwnCompare(ch[PinChannel(call.pin)], call.pin) = call.top

\* C11: a start with duty_cycle = 65536 succeeds, with compare = top + 1 and
\* top < 65535, for every frequency with threshold < frequency <= clock, and
\* returns INVAL for every positive frequency <= threshold.
C11_FullDutyByFrequency ==
    (Planned /\ call.duty_cycle = 65536) =>
        /\ NoDividerBranch =>
               /\ call.solved
               /\ call.top < 65535
               /\ ret # "INVAL"
               /\ call.compare_value = call.top + 1
               /\ pc = "idle" =>
                      /\ ret = "Ok"
                      /\ ch[PinChannel(call.pin)].en
                      /\ OwnCompare(ch[PinChannel(call.pin)], call.pin) = call.top + 1
        /\ DividerBranch =>
               /\ pc = "idle"
               /\ ret = "INVAL"
               /\ wlog = <<>>

\* Witness of C11: 100% duty was refused at the threshold frequency, where the
\* solver succeeds with divider 1 and top = 65535
C11_Witness ==
    /\ Planned
    /\ call.duty_cycle = 65536
    /\ call.frequency_hz = Threshold
    /\ call.solved
    /\ pc = "idle"
    /\ ret = "INVAL"

---------------------------------------------------------------------------
(* Properties of stop and of the pin mapping *)

\* The last call is a stop that has returned
StopReturned == pc = "idle" /\ call.op = "stop"

\* The other sub-pin of the channel of a pin
Sibling(pin) == IF pin % 2 = 0 THEN pin + 1 ELSE pin - 1

\* C12: stop(pin) returns success and changes nothing but the enable bit of
\* the pin's channel, which it clears: top, divider, compare values, mode
\* bits and counter of every channel, the interrupt registers and the clock
\* keep their values.  A stop of a channel that is already stopped changes no
\* register, so stopping twice gives the same state as stopping once.
C12_StopClearsOnlyEnable ==
    [][\A pin \in GpioPins :
           stop(pin) =>
               /\ ret' = "Ok"
               /\ ch' = [ch EXCEPT ![PinChannel(pin)].en = FALSE]
               /\ ~ch[PinChannel(pin)].en => ch' = ch
               /\ intr' = intr
               /\ inte' = inte
               /\ intf' = intf
               /\ ints' = ints
               /\ clocks' = clocks]_vars

\* Witness of C12: channel 0, running with top = 3 and compare A = 3, has been
\* stopped and keeps both values, while interrupts are enabled and forced
C12_Witness ==
    /\ StopReturned
    /\ pre[0].en
    /\ ~ch[0].en
    /\ ch[0].top = 3
    /\ ch[0].cc_a = 3
    /\ inte # {}
    /\ intf # {}

\* C13: the enable is per channel.  After a stop through any pin, the channel
\* of that pin and of its sibling pin is disabled, whichever sub-pins were
\* started before; after a successful start through a pin, the channel of its
\* sibling pin is enabled.
C13_EnableIsChannelWide ==
    /\ StopReturned =>
           /\ ~ch[ChannelNumber_from(call.pin)].en
           /\ ~ch[ChannelNumber_from(Sibling(call.pin))].en
    /\ (StartReturned /\ ret = "Ok") =>
           /\ ch[ChannelNumber_from(call.pin)].en
           /\ ch[ChannelNumber_from(Sibling(call.pin))].en

\* Witness of C13: channel 0 was running with both sub-pins programmed and has
\* been stopped through pin 17, the second pin of sub-pin 0B
C13_Witness ==
    /\ StopReturned
    /\ call.pin = 17
    /\ pre[0].en
    /\ pre[0].cc_a > 0
    /\ pre[0].cc_b > 0
    /\ ~ch[0].en

\* The channel the table of RPGpio gives for a pin: 2 * channel + sub-pin
\* index is the pin number, modulo 16
TableChannel(pin) ==
    CHOOSE c \in ChannelNumbers : (2 * c + (pin % 2)) % 16 = pin % 16

\* C14: every pin p in 0..29 maps to channel (p >> 1) mod 8 and to sub-pin A
\* if p is even, B if p is odd; p and p + 16 map to the same channel and
\* sub-pin, and a start or stop through either of them acts on the registers
\* of that one channel.
C14_PinMapping ==
    call.op \in {"start", "stop"} =>
        LET c == TableChannel(call.pin)
        IN  /\ call.pin \in GpioPins
            /\ call.channel_number = c
            /\ call.channel_pin = (IF call.pin % 2 = 0 THEN "A" ELSE "B")
            /\ \A q \in Aliases(call.pin) :
                   /\ ChannelNumber_from(q) = c
                   /\ ChannelPin_from(q) = call.channel_pin
            /\ \A o \in ChannelNumbers \ {c} : ch[o] = pre[o]
            /\ (StartReturned /\ ret = "Ok") =>
                   /\ ch[c].en
                   /\ call.channel_pin = "A" => ch[c].cc_a = call.compare_value
                   /\ call.channel_pin = "B" => ch[c].cc_b = call.compare_value
            /\ StopReturned => ch = [pre EXCEPT ![c].en = FALSE]

\* Witness of C14: the output 5B, running after a start through pin 27 or 11,
\* has been stopped through pin 11
C14_Witness ==
    /\ StopReturned
    /\ call.pin = 11
    /\ call.channel_number = 5
    /\ call.channel_pin = "B"
    /\ pre[5].en
    /\ pre[5].cc_b > 0
    /\ ~ch[5].en

---------------------------------------------------------------------------
(* Properties of the divider and of configure (checked under SpecConfig) *)

\* C15: after init, in every state reached by configure, set_divider_int_frac,
\* start with a positive frequency and stop, the divider of every channel has
\* an integral part in 1..255 and a fractional part in 0..15.
C15_DividerInRange ==
    \A c \in ChannelNumbers :
        /\ ch[c].int \in 1 .. 255
        /\ ch[c].frac \in 0 .. 15

\* Witness of C15: channel 0 holds the largest divider after a setter call
\* that came after rejected ones, channel 1 a divider solved by start
C15_Witness ==
    /\ pc = "idle"
    /\ ch[0].int = 255
    /\ ch[0].frac = 15
    /\ ch[1].int = 1
    /\ ch[1].frac = 14
    /\ ch[1].en
    /\ call.op = "set_divider_int_frac"
    /\ call.int = 0

\* C16: a divider setter called with int = 0 or frac > 15, on a channel or on
\* a configuration value, changes nothing (both parts of the divider keep
\* their values) and reports no error; called with a valid pair it sets both
\* parts and nothing else.
C16_InvalidDividerIsNoOp ==
    [][/\ \A c \in ConfigChannels, int \in DividerInts, frac \in DividerFracs :
              Pwm_set_divider_int_frac(c, int, frac) =>
                  /\ ret' = "Ok"
                  /\ config' = config
                  /\ ints' = ints
                  /\ IF int = 0 \/ frac > 15
                     THEN ch' = ch
                     ELSE ch' = [ch EXCEPT ![c].int = int, ![c].frac = frac]
       /\ \A int \in DividerInts, frac \in DividerFracs :
              config_set_divider_int_frac(int, frac) =>
                  /\ ch' = ch
                  /\ ret' = ret
                  /\ IF int = 0 \/ frac > 15
                     THEN config' = config
                     ELSE config' = [config EXCEPT !.int = int, !.frac = frac]]_vars

\* Witness of C16: set_divider_int_frac(1, 255, 16) has been rejected on
\* channel 1, which keeps the divider 123 + 4/16 it was configured with, and
\* the configuration value holds a divider set by a valid call
C16_Witness ==
    /\ pc = "idle"
    /\ call.op = "set_divider_int_frac"
    /\ call.channel_number = 1
    /\ call.int = 255
    /\ call.frac = 16
    /\ ret = "Ok"
    /\ ch = pre
    /\ ch[1].int = 123
    /\ ch[1].frac = 4
    /\ config.int = 1
    /\ config.frac = 15

\* C17: configure(channel, configuration) succeeds and leaves every
\* configured field of the channel equal to the field of the configuration
\* value; the counter of the channel and all other channels are unchanged.
C17_ConfigureAppliesSnapshot ==
    [][\A c \in ChannelNumbers :
           Pwm_configure_channel(c) =>
               /\ ret' = "Ok"
               /\ config' = config
               /\ ch'[c].en = config.en
               /\ ch'[c].ph_correct = config.ph_correct
               /\ ch'[c].a_inv = config.a_inv
               /\ ch'[c].b_inv = config.b_inv
               /\ ch'[c].divmode = config.divmode
               /\ ch'[c].int = config.int
               /\ ch'[c].frac = config.frac
               /\ ch'[c].cc_a = config.cc_a
               /\ ch'[c].cc_b = config.cc_b
               /\ ch'[c].top = config.top
               /\ ch'[c].ctr = ch[c].ctr
               /\ \A o \in ChannelNumbers \ {c} : ch'[o] = ch[o]]_vars

\* Witness of C17: channel 0 has been configured with the test configuration
\* while channel 1 was running, started through pin 2
C17_Witness ==
    /\ pc = "idle"
    /\ call.op = "configure_channel"
    /\ call.channel_number = 0
    /\ config = test_config
    /\ ch[0].ph_correct
    /\ ch[0].a_inv
    /\ ~ch[0].b_inv
    /\ ch[0].divmode = "Rising"
    /\ ch[0].cc_a = 2023
    /\ ch[0].cc_b = 1
    /\ ch[0].top = 12345
    /\ ~pre[0].ph_correct
    /\ ch[1].en
    /\ ch[1].top = 3

---------------------------------------------------------------------------
(* Properties of the interrupt dispatcher (checked under SpecIrq) *)

\* An entry of ilog is a notification of the handler
IsFired(e) == e.op = "fired"

\* The channels of the notifications in a log, in order
FiredChannels(log) ==
    LET fired == SelectSeq(log, IsFired)
    IN  [i \in 1 .. Len(fired) |-> fired[i].channel_number]

\* C18: within one invocation of handle_interrupt the notifications of the
\* handler are in strictly ascending channel order.
C18_FiredAscending ==
    LET f == FiredChannels(ilog)
    IN  \A i \in 1 .. Len(f) : \A j \in 1 .. Len(f) : i < j => f[i] < f[j]

\* Witness of C18: one invocation has notified channels 0, 3 and 7
C18_Witness ==
    /\ isr.pc = "idle"
    /\ FiredChannels(ilog) = <<0, 3, 7>>

\* The number of notifications for a channel in a log
FiredCount(log, channel_number) ==
    Cardinality({i \in 1 .. Len(log) :
                     log[i].op = "fired" /\ log[i].channel_number = channel_number})

\* handle_interrupt returns with this step
HandleReturns == isr.pc # "idle" /\ isr'.pc = "idle"

\* C19: with a handler registered and no interrupt latched by the hardware
\* during the call, an invocation of handle_interrupt has, when it returns,
\* notified the handler exactly once for every channel whose status bit was set
\* at entry (a forced channel included) and for no other channel, and the
\* status bits that were set at entry are clear.
C19_PendingFiredOnce ==
    [][(HandleReturns /\ interrupt_handler # None /\ ~disturbed) =>
           /\ \A c \in ChannelNumbers :
                  FiredCount(ilog', c) = (IF c \in ints_entry THEN 1 ELSE 0)
           /\ ints' \cap ints_entry = {}]_vars

\* Witness of C19: an undisturbed invocation entered with channel 0 forced and
\* channel 7 latched and enabled has returned, both notified, no status left
C19_Witness ==
    /\ isr.pc = "idle"
    /\ ~disturbed
    /\ ints_entry = {0, 7}
    /\ FiredChannels(ilog) = <<0, 7>>
    /\ 7 \in inte
    /\ ints = {}

\* C20: for each pending channel the dispatcher first notifies the handler,
\* then clears the latched interrupt, then clears the force bit; the status
\* bit of the channel is set before and after the notification, neither bit
\* having been cleared yet.
C20_NotifyClearUnforce ==
    /\ \A i \in 1 .. Len(ilog) :
           /\ (ilog[i].op = "fired" /\ i < Len(ilog)) =>
                  ilog[i + 1] = Event("clear_interrupt", ilog[i].channel_number, "")
           /\ (ilog[i].op = "clear_interrupt" /\ i < Len(ilog)) =>
                  ilog[i + 1] = Event("unforce_interrupt", ilog[i].channel_number, "")
           /\ ilog[i].op = "unforce_interrupt" =>
                  /\ i > 1
                  /\ ilog[i - 1] = Event("clear_interrupt", ilog[i].channel_number, "")
    /\ isr.pc \in {"fired", "clear_interrupt"} =>
           /\ get_interrupt_status(isr.channel_number)
           /\ \A i \in 1 .. Len(ilog) :
                  ilog[i].op # "fired" => ilog[i].channel_number # isr.channel_number
    /\ (isr.pc = "clear_interrupt" /\ interrupt_handler # None) =>
           /\ Len(ilog) > 0
           /\ ilog[Len(ilog)] = Event("fired", isr.channel_number, interrupt_handler[1])
    /\ isr.pc = "unforce_interrupt" =>
           /\ Len(ilog) > 0
           /\ ilog[Len(ilog)] = Event("clear_interrupt", isr.channel_number, "")

\* Witness of C20: channel 7, latched and forced, has just been notified after
\* channel 3 was served; neither of its bits is cleared yet
C20_Witness ==
    /\ isr.pc = "clear_interrupt"
    /\ isr.channel_number = 7
    /\ Len(ilog) = 4
    /\ ilog[4] = Event("fired", 7, "client")
    /\ 7 \in intr
    /\ 7 \in inte
    /\ 7 \in intf

\* C21: when no handler is registered, an invocation of handle_interrupt
\* that no hardware event disturbs makes no notification and has, when it
\* returns, cleared the latched bit and the force bit of every channel that was
\* pending at entry, so none of their status bits is set.
C21_NoHandlerStillClears ==
    [][(HandleReturns /\ interrupt_handler = None /\ ~disturbed) =>
           /\ FiredChannels(ilog') = <<>>
           /\ \A c \in ints_entry :
                  /\ \E i \in 1 .. Len(ilog') :
                         ilog'[i] = Event("clear_interrupt", c, "")
                  /\ \E i \in 1 .. Len(ilog') :
                         ilog'[i] = Event("unforce_interrupt", c, "")
                  /\ c \notin intr'
                  /\ c \notin intf'
           /\ ints' \cap ints_entry = {}]_vars

\* Witness of C21: without a handler, an undisturbed invocation entered with
\* channel 0 forced and channel 7 latched and enabled has returned; both were
\* cleared and unforced, nothing was notified
C21_Witness ==
    /\ isr.pc = "idle"
    /\ interrupt_handler = None
    /\ ~disturbed
    /\ ints_entry = {0, 7}
    /\ Len(ilog) = 4
    /\ 7 \in inte
    /\ ints = {}

\* C22: enable_interrupt(c) sets and disable_interrupt(c) clears bit c of the
\* interrupt enable mask; the bit of every other channel is after the call
\* what it was before, whatever the mask was, and the raw and force registers
\* are not written.
C22_EnableMaskOneBit ==
    [][\A c \in IrqChannels :
           /\ enable_interrupt(c) =>
                  /\ c \in inte'
                  /\ \A o \in ChannelNumbers \ {c} : (o \in inte') <=> (o \in inte)
                  /\ intr' = intr
                  /\ intf' = intf
           /\ disable_interrupt(c) =>
                  /\ c \notin inte'
                  /\ \A o \in ChannelNumbers \ {c} : (o \in inte') <=> (o \in inte)
                  /\ intr' = intr
                  /\ intf' = intf]_vars

\* Witness of C22: the interrupts of channels 3 and 7 are both enabled, which
\* takes an enable_interrupt call on a mask that already had a bit set
C22_Witness ==
    /\ isr.pc = "idle"
    /\ pc = "idle"
    /\ inte = {3, 7}

\* C23: after force_interrupt(c) the status bit of c is set whatever the
\* enable mask is; a force bit that is set stays set, and the status bit with
\* it, in every step but the dispatcher's unforce of that very channel:
\* disable_interrupt(c) and the clearing of the latched bit leave it set.
C23_ForcePersists ==
    [][/\ force_interrupt_modify => call.channel_number \in ints'
       /\ \A c \in ChannelNumbers :
              /\ (c \in intf /\ c \notin intf') =>
                     (isr.pc = "unforce_interrupt" /\ isr.channel_number = c)
              /\ c \in intf' => c \in ints']_vars

\* Witness of C23: channel 3 has been forced and its status bit is set while
\* its interrupt is neither enabled nor latched
C23_Witness ==
    /\ pc = "idle"
    /\ call.op = "force_interrupt"
    /\ call.channel_number = 3
    /\ 3 \in intf
    /\ 3 \notin inte
    /\ 3 \notin intr
    /\ get_interrupt_status(3)

---------------------------------------------------------------------------
(* Further properties of the foreground calls *)

\* C28: a start called while no clock source is attached ends in a panic: it
\* returns no result, and no channel register has been written by the call.
C28_StartWithoutClockPanics ==
    /\ (call.op = "start" /\ clocks = None /\ pc # "start_pwm_pin") =>
           pc = "panic"
    /\ pc = "panic" =>
           /\ call.op = "start"
           /\ clocks = None
           /\ ret = "pending"
           /\ wlog = <<>>
           /\ ch = pre

\* Witness of C28: after init and without set_clocks, a start through pin 18
\* has panicked; the channels hold their reset values
C28_Witness ==
    /\ pc = "panic"
    /\ call.op = "start"
    /\ call.pin = 18
    /\ clocks = None
    /\ ch = [c \in ChannelNumbers |-> reset_registers]

Position(log, name) == CHOOSE i \in 1 .. Len(log) : log[i] = name

\* The last call is a configure_channel that has returned
ConfigureReturned == pc = "idle" /\ call.op = "configure_channel"

\* C30 as stated: within a configure call the writes are issued in the order
\* top, divider, compare values, enable.
C30_Original ==
    ConfigureReturned =>
        /\ Position(wlog, "top") < Position(wlog, "div_int")
        /\ Position(wlog, "div_frac") < Position(wlog, "cc_a")
        /\ Position(wlog, "cc_b") < Position(wlog, "en")

\* C30 amended: within a configure call the writes are issued in the order
\* phase-correct bit, polarity bits, divider mode, divider, compare values,
\* top, enable: top is written after the divider and the compare values, and
\* the enable bit is written last.
C30_ConfigureWriteOrder ==
    ConfigureReturned =>
        /\ Len(wlog) = 10
        /\ Position(wlog, "ph_correct") < Position(wlog, "a_inv")
        /\ Position(wlog, "a_inv") < Position(wlog, "b_inv")
        /\ Position(wlog, "b_inv") < Position(wlog, "divmode")
        /\ Position(wlog, "divmode") < Position(wlog, "div_int")
        /\ Position(wlog, "div_int") < Position(wlog, "div_frac")
        /\ Position(wlog, "div_frac") < Position(wlog, "cc_a")
        /\ Position(wlog, "cc_a") < Position(wlog, "cc_b")
        /\ Position(wlog, "cc_b") < Position(wlog, "top")
        /\ Position(wlog, "top") < Position(wlog, "en")
        /\ wlog[Len(wlog)] = "en"

\* Witness of C30: channel 0 has been configured and enabled with the test
\* configuration; top was the ninth write
C30_Witness ==
    /\ ConfigureReturned
    /\ call.channel_number = 0
    /\ wlog[9] = "top"
    /\ ch[0].top = 12345
    /\ pre[0].top = 65535
    /\ ch[0].en

---------------------------------------------------------------------------
(* Properties over every public operation (checked under SpecOps) *)

\* C29: the enable bit of a channel, once set by a successful start, stays
\* set until stop, set_enabled(false), configure_channel with a configuration
\* whose enable is false, or init is applied to that channel: whenever the
\* enable bit of a channel goes from set to clear the step is one of these
\* four, so handle_interrupt, later starts (failed or not), the interrupt
\* mask operations and operations on other channels never clear it.
C29_EnableStaysSet ==
    [][\A c \in ChannelNumbers :
           (ch[c].en /\ ~ch'[c].en) =>
               \/ \E pin \in GpioPins : PinChannel(pin) = c /\ stop(pin)
               \/ Pwm_set_enabled(c, FALSE)
               \/ ~config.en /\ Pwm_configure_channel(c)
               \/ init]_vars

\* Witness of C29: channel 1 was started through pin 2 at a quarter of the
\* clock, an interrupt was handled and the interrupt mask written, a later
\* start on the channel failed, and the channel is still enabled
C29_Witness ==
    /\ pc = "idle"
    /\ isr.pc = "idle"
    /\ call.op = "start"
    /\ call.pin = 2
    /\ ret = "INVAL"
    /\ ch[1].top = 3
    /\ ch[1].en
    /\ ilog # <<>>
    /\ inte = {1}

\* The entries a step appends to ilog
NewEvents == {ilog'[i] : i \in (Len(ilog) + 1) .. Len(ilog')}

\* C25: at most one handler is registered; a registration replaces the
\* handler registered before (last writer wins), and every notification
\* handle_interrupt makes goes to the handler registered last.
C25_LastHandlerWins ==
    [][/\ Len(interrupt_handler') <= 1
       /\ \A h \in OpsHandlers :
              set_interrupt_handler(h) => interrupt_handler' = <<h>>
       /\ \A e \in NewEvents :
              IsFired(e) =>
                  /\ interrupt_handler # None
                  /\ e.handler = interrupt_handler[1]
                  /\ interrupt_handler' = interrupt_handler]_vars

\* Witness of C25: the last interrupt notified the handler "client" for
\* channel 1; "other" has since been registered in its place
C25_Witness ==
    /\ isr.pc = "idle"
    /\ Event("fired", 1, "client") \in {ilog[i] : i \in 1 .. Len(ilog)}
    /\ interrupt_handler = <<"other">>

\* The step is the dispatcher's clear of the latched bit or of the force bit
\* of the channel
DispatcherClears(c) ==
    /\ isr.channel_number = c
    /\ handle_clear_interrupt \/ handle_unforce_interrupt

\* C24 as stated: the status bit of a channel goes from set to clear only
\* through the dispatcher's per-channel clear inside handle_interrupt.
C24_Original ==
    [][\A c \in ChannelNumbers :
           (c \in ints /\ c \notin ints') => DispatcherClears(c)]_vars

\* C24 amended: the status bit of a channel goes from set to clear only
\* through the dispatcher's per-channel clear inside handle_interrupt (after
\* the notification of that channel when a handler is registered), or, for a
\* channel that is latched but not forced, through disable_interrupt on that
\* channel or enable_mask_interrupt with a mask that leaves the channel out;
\* stop, start, configure_channel, set_enabled, init, force_interrupt and
\* set_interrupt_handler never make a set status bit clear.
C24_StatusClearedBy ==
    [][\A c \in ChannelNumbers :
           (c \in ints /\ c \notin ints') =>
               \/ /\ DispatcherClears(c)
                  /\ interrupt_handler # None => FiredCount(ilog, c) = 1
               \/ /\ c \notin intf
                  /\ disable_interrupt(c)
               \/ /\ c \notin intf
                  /\ \E mask \in InterruptMasks :
                         c \notin mask /\ enable_mask_interrupt(mask)]_vars

\* Witness of C24: the raw interrupt of channel 1 is latched and not forced,
\* its enable bit is clear, and the status bit reads clear outside
\* handle_interrupt
C24_Witness ==
    /\ pc = "idle"
    /\ isr.pc = "idle"
    /\ 1 \in intr
    /\ 1 \notin inte
    /\ 1 \notin intf
    /\ ~get_interrupt_status(1)

---------------------------------------------------------------------------
(* Properties of advance_count and retard_count (checked under SpecPhase) *)

\* A call of advance_count or retard_count on the channel is polling
Polling(op, c) == pc = op /\ call.channel_number = c

---------------------------------------------------------------------------
(* Properties of the interrupt preempting the foreground (SpecIrq) *)

\* C31 as stated: when handle_interrupt preempts force_interrupt between its
\* read and its write of the force mask, the write-back sets no force bit
\* that the dispatcher has cleared: it adds the bit of the forced channel to
\* the force mask as it is at the write, so no channel is forced, and later
\* notified, a second time.
C31_Original ==
    [][force_interrupt_modify => intf' = intf \cup {call.channel_number}]_vars

---------------------------------------------------------------------------
(* Further properties of start (checked under Spec) *)

\* The compare register of the other sub-pin of the pin's channel
OtherCompare(regs, pin) == IF pin % 2 = 0 THEN regs.cc_b ELSE regs.cc_a

---------------------------------------------------------------------------
(* Further properties over every public operation (checked under SpecOps) *)

\* The channel registers with the fields a start on the pin may write taken
\* from another value of the registers
WithStartFields(regs, from, pin) ==
    IF pin % 2 = 0
    THEN [regs EXCEPT !.top = from.top, !.int = from.int, !.frac = from.frac,
                      !.cc_a = from.cc_a, !.en = from.en]
    ELSE [regs EXCEPT !.top = from.top, !.int = from.int, !.frac = from.frac,
                      !.cc_b = from.cc_b, !.en = from.en]

\* C33: a successful start on one sub-pin of a channel changes only the top,
\* the divider, that sub-pin's compare value and the enable bit of the
\* channel: the other sub-pin's compare value, the phase-correct, invert and
\* divider-mode bits, the counter and the registers of every other channel
\* are as they were at entry, and no step of a start changes the interrupt
\* enable mask or the force mask.
C33_StartFrame ==
    /\ []((StartReturned /\ ret = "Ok") =>
              \A c \in ChannelNumbers :
                  ch[c] = IF c = PinChannel(call.pin)
                          THEN WithStartFields(pre[c], ch[c], call.pin)
                          ELSE pre[c])
    /\ [][(\/ StartSteps
           \/ \E pin \in OpsPins, f \in OpsFreqs(clocks[1]) :
                  start(pin, f, (get_maximum_duty_cycle \div 4) * 3))
              => UNCHANGED <<inte, intf>>]_vars

\* Witness of C33: channel 1, configured and enabled with the configuration
\* of the unit test, was started through pin 2 (A) while the interrupt of the
\* channel was enabled and forced: top, divider and compare A are those of
\* the start, the other fields those of the configuration
C33_Witness ==
    /\ StartReturned
    /\ ret = "Ok"
    /\ call.pin = 2
    /\ ch[1].top = 3
    /\ ch[1].cc_a = 3
    /\ ch[1].cc_b = 1
    /\ ch[1].ph_correct
    /\ ch[1].a_inv
    /\ ch[1].divmode = "Rising"
    /\ pre[1].top = 12345
    /\ pre[1].cc_a = 2023
    /\ inte = {1}
    /\ intf = {1}

---------------------------------------------------------------------------
(* Properties of the interrupt enable mask (checked under SpecMask) *)

\* C34: after enable_mask_interrupt(mask) the interrupt enable mask is
\* exactly mask: the channels in mask are enabled and every other channel is
\* disabled, whether it was enabled before or not; the latched and forced
\* bits are not changed.
C34_MaskOverwrites ==
    [][\A mask \in MaskChoices :
           enable_mask_interrupt(mask) =>
               /\ inte' = mask
               /\ \A c \in inte \ mask : c \notin inte'
               /\ UNCHANGED <<intr, intf>>]_vars

\* Witness of C34: the mask {0} has been written, which only
\* enable_mask_interrupt does; the interrupts of channels 1 and 2 are latched
\* and disabled, so neither is pending
C34_Witness ==
    /\ inte = {0}
    /\ intr = {1, 2}
    /\ ints = {}
    /\ ints_entry = {1, 2}
    /\ isr.pc = "idle"

---------------------------------------------------------------------------
(* Properties of init *)

\* The last call is an init that has returned
InitReturned == pc = "idle" /\ call.op = "init"

\* C35: after init every one of the 8 channels is disabled, with
\* trailing-edge modulation, no inversion of A or B, free-running divider
\* mode, divider 1 + 0/16, compare A = compare B = 0, top = 65535 and
\* counter = 0, whatever the registers held before.
C35_InitDefaults ==
    InitReturned =>
        /\ DOMAIN ch = 0 .. 7
        /\ \A c \in 0 .. 7 :
               /\ ~ch[c].en
               /\ ~ch[c].ph_correct
               /\ ~ch[c].a_inv
               /\ ~ch[c].b_inv
               /\ ch[c].divmode = "FreeRunning"
               /\ ch[c].int = 1
               /\ ch[c].frac = 0
               /\ ch[c].cc_a = 0
               /\ ch[c].cc_b = 0
               /\ ch[c].top = 65535
               /\ ch[c].ctr = 0

\* Witness of C35: init has run on a peripheral of which channel 0 was
\* running with top = 3 and both compare values programmed
C35_Witness ==
    /\ InitReturned
    /\ pre[0].en
    /\ pre[0].top = 3
    /\ pre[0].cc_a = 3
    /\ pre[0].cc_b = 4
    /\ ch[0].top = 65535
    /\ ch[0].cc_a = 0
    /\ ~ch[0].en

\* C36: init leaves the interrupt enable mask and the force mask as they
\* are, and its write of 0 to the write-to-clear register intr clears no
\* latched interrupt: every status bit set before init is set after it.
C36_InitKeepsInterrupts ==
    [][init =>
           /\ inte' = inte
           /\ intf' = intf
           /\ intr' = intr
           /\ \A c \in ChannelNumbers : c \in ints => c \in ints']_vars

\* Witness of C36: init has reset channel 1, which was running, while its
\* interrupt is latched, enabled and forced: the status bit is still set
C36_Witness ==
    /\ InitReturned
    /\ pre[1].en
    /\ ~ch[1].en
    /\ intr = {1}
    /\ inte = {1}
    /\ intf = {1}
    /\ get_interrupt_status(1)

---------------------------------------------------------------------------
(* Further properties of handle_interrupt (checked under SpecIrq) *)

\* A step of handle_interrupt, its entry included
HandleStep == handle_interrupt \/ HandleSteps

\* C37: handle_interrupt notifies, clears and unforces only a channel whose
\* status bit was set when its index was reached: the notification is
\* entered only from a status read that found the bit set, and the events,
\* the clear and the unforce that follow are for that channel only; a channel
\* whose status bit reads clear is passed over with no event and keeps its
\* latch, so that it is pending once its interrupt is enabled;
\* handle_interrupt never changes the interrupt enable mask.
C37_SkipsNotPending ==
    [][/\ \A c \in IrqChannels :
              (enable_interrupt(c) /\ c \in intr) => get_interrupt_status(c)'
       /\ HandleStep =>
           /\ inte' = inte
           /\ isr'.pc = "fired" =>
                  /\ isr.pc = "get_interrupt_status"
                  /\ isr.channel_number \in ints
                  /\ isr'.channel_number = isr.channel_number
           /\ isr'.pc \in {"clear_interrupt", "unforce_interrupt"} =>
                  /\ isr.pc \in {"fired", "clear_interrupt"}
                  /\ isr'.channel_number = isr.channel_number
           /\ (isr.pc = "get_interrupt_status" /\ isr.channel_number \notin ints)
                  => (isr'.pc # "fired" /\ UNCHANGED <<intr, intf, ilog>>)
           /\ \A e \in NewEvents : e.channel_number = isr.channel_number
           /\ \A c \in ChannelNumbers :
                  (c \in (intr \ intr') \cup (intf \ intf')) =>
                      /\ c = isr.channel_number
                      /\ isr.pc \in {"clear_interrupt", "unforce_interrupt"}]_vars

\* Witness of C37: handle_interrupt, entered with channel 7 pending, has
\* reached the notification of channel 7; channel 3, latched since before
\* the entry but neither enabled nor forced, was passed over with no event
\* and is still latched
C37_Witness ==
    /\ isr.pc = "fired"
    /\ isr.channel_number = 7
    /\ ints_entry = {7}
    /\ ~disturbed
    /\ ilog = <<>>
    /\ 3 \in intr
    /\ 3 \notin inte
    /\ 3 \notin intf

---------------------------------------------------------------------------
(* Properties of the register setters (checked under SpecSetters) *)

\* The step changes, of all channel registers, at most the given fields of
\* the given channel
OnlyFields(c, fields) ==
    /\ \A k \in ChannelNumbers \ {c} : ch'[k] = ch[k]
    /\ \A f \in (DOMAIN ch[c]) \ fields : ch'[c][f] = ch[c][f]

\* C38: set_enabled, set_ph_correct, set_invert_polarity and set_div_mode set
\* their own field(s) of the addressed channel to the value given and leave
\* its other fields as they are; set_compare_value_a and set_compare_value_b
\* set their own half of the compare register only; the field reads back as
\* written and no other channel is changed.
C38_SettersFrame ==
    [][\A c \in SetterChannels :
           /\ \A enable \in BOOLEAN :
                  Pwm_set_enabled(c, enable) =>
                      (ch'[c].en = enable /\ OnlyFields(c, {"en"}))
           /\ \A ph_correct \in BOOLEAN :
                  Pwm_set_ph_correct(c, ph_correct) =>
                      /\ ch'[c].ph_correct = ph_correct
                      /\ OnlyFields(c, {"ph_correct"})
           /\ \A a_inv \in BOOLEAN, b_inv \in BOOLEAN :
                  Pwm_set_invert_polarity(c, a_inv, b_inv) =>
                      /\ ch'[c].a_inv = a_inv
                      /\ ch'[c].b_inv = b_inv
                      /\ OnlyFields(c, {"a_inv", "b_inv"})
           /\ \A divmode \in SetterDivModes :
                  Pwm_set_div_mode(c, divmode) =>
                      (ch'[c].divmode = divmode /\ OnlyFields(c, {"divmode"}))
           /\ \A cc_a \in SetterCompares :
                  Pwm_set_compare_value_a(c, cc_a) =>
                      (ch'[c].cc_a = cc_a /\ OnlyFields(c, {"cc_a"}))
           /\ \A cc_b \in SetterCompares :
                  Pwm_set_compare_value_b(c, cc_b) =>
                      (ch'[c].cc_b = cc_b /\ OnlyFields(c, {"cc_b"}))]_vars

\* Witness of C38: set_invert_polarity(Ch7, true, false) has returned on a
\* channel that had B inverted and A not, with phase-correct modulation, a
\* rising-edge divider mode and compare A = 2022; channel 0 holds the values
\* of an earlier run
C38_Witness ==
    /\ pc = "idle"
    /\ call.op = "set_invert_polarity"
    /\ call.channel_number = 7
    /\ ~pre[7].a_inv
    /\ pre[7].b_inv
    /\ ch[7].a_inv
    /\ ~ch[7].b_inv
    /\ ch[7].ph_correct
    /\ ch[7].en
    /\ ch[7].divmode = "Rising"
    /\ ch[7].cc_a = 2022
    /\ ch[0] = stale_registers

---------------------------------------------------------------------------
(* Further properties of the planner (checked under SpecPlanner) *)

\* top as computed in usize, before the cast to u16
UncastTop ==
    IF call.frequency_hz > clocks[1] \div get_maximum_duty_cycle
    THEN (clocks[1] \div call.frequency_hz) - 1
    ELSE U16_MAX

\* The compare value as computed in usize, before the cast to u16
UncastCompare ==
    IF call.duty_cycle = get_maximum_duty_cycle
    THEN UncastTop + 1
    ELSE MulShift16(UncastTop + 1, call.duty_cycle)

\* C39: when a start with 0 < frequency <= clock and 0 <= duty <= maximum
\* succeeds, the values written are the values computed, in register range,
\* so no narrowing cast truncates: top and compare are in 0 .. 65535, the
\* divider has int in 1 .. 255 and frac in 0 .. 15, and without divider top
\* is at most 65534.
C39_NoTruncation ==
    (/\ StartReturned
     /\ ret = "Ok"
     /\ 0 < call.frequency_hz
     /\ call.frequency_hz <= clocks[1]
     /\ call.duty_cycle \in 0 .. get_maximum_duty_cycle) =>
        LET regs == ch[PinChannel(call.pin)]
        IN  /\ regs.top = UncastTop
            /\ regs.top \in 0 .. 65535
            /\ NoDividerBranch => regs.top <= 65534
            /\ OwnCompare(regs, call.pin) = UncastCompare
            /\ OwnCompare(regs, call.pin) \in 0 .. 65535
            /\ regs.int = call.int
            /\ regs.int \in 1 .. 255
            /\ regs.frac = call.frac
            /\ regs.frac \in 0 .. 15

\* Witness of C39: a start just above the threshold frequency succeeded at
\* 100% duty: top is above 60000 and the compare value is top + 1
C39_Witness ==
    /\ StartReturned
    /\ ret = "Ok"
    /\ call.frequency_hz = (clocks[1] \div get_maximum_duty_cycle) + 1
    /\ call.duty_cycle = get_maximum_duty_cycle
    /\ ch[PinChannel(call.pin)].top > 60000
    /\ OwnCompare(ch[PinChannel(call.pin)], call.pin)
           = ch[PinChannel(call.pin)].top + 1

---------------------------------------------------------------------------
(* Further properties of the configuration value (checked under SpecConfig) *)

\* C40: a configuration value made by default_config and changed by its
\* setters alone always holds a divider with int in 1 .. 255 and frac in
\* 0 .. 15, so the guard of the channel's divider setter never rejects it and
\* configure_channel always writes the divider of the value to the channel.
C40_SnapshotDividerValid ==
    /\ [](/\ config.int \in 1 .. 255
          /\ config.frac \in 0 .. 15
          /\ ~divider_rejected(config.int, config.frac))
    /\ [][\A c \in ConfigChannels :
              Pwm_configure_channel(c) =>
                  /\ Position(wlog', "div_int") < Position(wlog', "div_frac")
                  /\ ch'[c].int = config.int
                  /\ ch'[c].frac = config.frac]_vars

\* Witness of C40: the configuration value holds the largest divider, set by
\* its setter, and channel 0, which held the divider 123 + 4/16, has been
\* configured with it
C40_Witness ==
    /\ ConfigureReturned
    /\ call.channel_number = 0
    /\ config.int = 255
    /\ config.frac = 15
    /\ pre[0].int = 123
    /\ pre[0].frac = 4
    /\ ch[0].int = 255
    /\ ch[0].frac = 15

=============================================================================
